---------------------------- MODULE Spec2Model ----------------------------
(***************************************************************************)
(* A model of the bbs-2023 cryptosuite core of herculas/vc-suite-bbs:      *)
(* the proof-value envelope (selective/serialize.ts, selective/assert.ts,  *)
(* selective/label.ts), the key-material codec (key/core.ts) and the       *)
(* issue / derive / verify pipeline (suite/core.ts, selective/prepare.ts). *)
(*                                                                         *)
(* Conventions.  A byte string (Uint8Array) is a sequence of 0..255.  A    *)
(* text string is the sequence of its character codes.  An optional field  *)
(* is a sequence of length 0 (undefined) or 1.  A JavaScript value that    *)
(* travels through CBOR is a record [k, n, s]: k is its kind, n its number *)
(* (kind "uint") and s its elements (bytes, characters, items or pairs).   *)
(* The result of an operation that can throw is [ok, code, val]: val holds *)
(* the returned value (one element) when ok, and code the error code when  *)
(* not.                                                                    *)
(***************************************************************************)
EXTENDS Integers, Sequences, FiniteSets, TLC

(***************************************************************************)
(* State.  Five machines share the module, each with its own variables:    *)
(* the envelope machine (env...), the pipeline (pipe...), the key codec    *)
(* (key...), the keypair (kp...) and the label maps (lbl...).  A           *)
(* specification runs one machine and leaves the variables of the others   *)
(* as they are.                                                            *)
(***************************************************************************)
VARIABLES envPhase, envKind, envValue, envSer, envWire, envIntact, envParser, envParsed

VARIABLES pipePhase, pipeDoc, pipeIssueOptions, pipeHashData, pipeProof,
          pipeDeriveOptions, pipeDisclosure, pipeDerived, pipeVerifyData,
          pipeVerified, pipeError

VARIABLES keyPhase, keyFlag, keyMaterial, keyMultibase, keyJwk, keyDecodeFlag, keyDecoded,
          keyIntact, keyReencoded

VARIABLES kpPhase, kpNew, kp, kpRound, kpInits, kpInit, kpExport, kpDoc, kpDocIntact, kpImport

VARIABLES lblPhase, lblMap, lblCompressed, lblDecompressed

envVars == <<envPhase, envKind, envValue, envSer, envWire, envIntact, envParser, envParsed>>

pipeVars == <<pipePhase, pipeDoc, pipeIssueOptions, pipeHashData, pipeProof,
              pipeDeriveOptions, pipeDisclosure, pipeDerived, pipeVerifyData,
              pipeVerified, pipeError>>

keyVars == <<keyPhase, keyFlag, keyMaterial, keyMultibase, keyJwk, keyDecodeFlag, keyDecoded,
             keyIntact, keyReencoded>>

kpVars == <<kpPhase, kpNew, kp, kpRound, kpInits, kpInit, kpExport, kpDoc, kpDocIntact, kpImport>>

lblVars == <<lblPhase, lblMap, lblCompressed, lblDecompressed>>

vars == <<envVars, pipeVars, keyVars, kpVars, lblVars>>

notEnvVars == <<pipeVars, keyVars, kpVars, lblVars>>
notPipeVars == <<envVars, keyVars, kpVars, lblVars>>
notKeyVars == <<envVars, pipeVars, kpVars, lblVars>>
notKpVars == <<envVars, pipeVars, keyVars, lblVars>>
notLblVars == <<envVars, pipeVars, keyVars, kpVars>>

(***************************************************************************)
(* Sequences                                                               *)
(***************************************************************************)
None == <<>>
Some(x) == <<x>>

Ok(x) == [ok |-> TRUE, code |-> "", val |-> <<x>>]
Err(c) == [ok |-> FALSE, code |-> c, val |-> <<>>]

RECURSIVE Flatten(_)
Flatten(ss) == IF ss = <<>> THEN <<>> ELSE Head(ss) \o Flatten(Tail(ss))

StartsWith(s, p) == Len(s) >= Len(p) /\ SubSeq(s, 1, Len(p)) = p

Drop(s, n) == SubSeq(s, n + 1, Len(s))

RECURSIVE SetToSeq(_)
SetToSeq(S) ==
  IF S = {} THEN <<>>
  ELSE LET m == CHOOSE x \in S : \A y \in S : x <= y
       IN  <<m>> \o SetToSeq(S \ {m})

Pow2(n) == CASE n = 0 -> 1 [] n = 2 -> 4 [] n = 4 -> 16 [] n = 6 -> 64
             [] n = 8 -> 256 [] n = 10 -> 1024 [] OTHER -> 1

(***************************************************************************)
(* Character codes of the literals the code uses                           *)
(***************************************************************************)
ChU == 117
ChZ == 122
ChMinus == 45
ChPlus == 43
ChSlash == 47
ChSpace == 32
Ch0 == 48

\* "c14n" and "b"
BLANK_LABEL == <<99, 49, 52, 110>>
COMPRESSED_VALUE == <<98>>

(***************************************************************************)
(* format.bytesToHex / format.hexToBytes: a hex string is the sequence of  *)
(* its digits' values (0..15), two per byte, high digit first.             *)
(***************************************************************************)
bytesToHex(bytes) ==
  [i \in 1..(2 * Len(bytes)) |->
     IF i % 2 = 1 THEN bytes[(i + 1) \div 2] \div 16 ELSE bytes[i \div 2] % 16]

hexToBytes(hex) ==
  [i \in 1..(Len(hex) \div 2) |-> hex[2 * i - 1] * 16 + hex[2 * i]]

concatenate(a, b) == a \o b

(***************************************************************************)
(* base64url without padding (RFC 4648 section 5), on character codes.     *)
(***************************************************************************)
B64Char(d) ==
  IF d < 26 THEN 65 + d
  ELSE IF d < 52 THEN 97 + (d - 26)
  ELSE IF d < 62 THEN 48 + (d - 52)
  ELSE IF d = 62 THEN 45 ELSE 95

\* the digits of '-' and '_' exchanged
B64DigitSwapped(c) ==
  IF c >= 65 /\ c <= 90 THEN c - 65
  ELSE IF c >= 97 /\ c <= 122 THEN c - 97 + 26
  ELSE IF c >= 48 /\ c <= 57 THEN c - 48 + 52
  ELSE IF c = 45 THEN 63
  ELSE IF c = 95 THEN 62 ELSE 64

\* 64 stands for a character outside the alphabet
B64Digit(c) ==
  IF c >= 65 /\ c <= 90 THEN c - 65
  ELSE IF c >= 97 /\ c <= 122 THEN c - 97 + 26
  ELSE IF c >= 48 /\ c <= 57 THEN c - 48 + 52
  ELSE IF c = 45 THEN 62
  ELSE IF c = 95 THEN 63 ELSE 64

Base64UrlEncode(bytes) ==
  LET n == Len(bytes)
      at(i) == IF i <= n THEN bytes[i] ELSE 0
  IN  [j \in 1..((4 * n + 2) \div 3) |->
         LET o == 6 * (j - 1)
             i == (o \div 8) + 1
             r == o % 8
             w == at(i) * 256 + at(i + 1)
         IN  B64Char((w \div Pow2(10 - r)) % 64)]

Base64UrlValid(chars) ==
  /\ Len(chars) % 4 # 1
  /\ \A j \in 1..Len(chars) : B64Digit(chars[j]) < 64

Base64UrlDecode(chars) ==
  LET m == Len(chars)
      at(j) == IF j <= m THEN B64Digit(chars[j]) ELSE 0
  IN  [k \in 1..((6 * m) \div 8) |->
         LET o == 8 * (k - 1)
             j == (o \div 6) + 1
             r == o % 6
             w == at(j) * 64 + at(j + 1)
         IN  (w \div Pow2(4 - r)) % 256]

\* multi.base64urlnopad: the multibase form, prefix 'u'
base64urlnopad_encode(bytes) == <<ChU>> \o Base64UrlEncode(bytes)

base64urlnopad_decode(str) ==
  IF Len(str) >= 1 /\ str[1] = ChU /\ Base64UrlValid(Tail(str))
  THEN Ok(Base64UrlDecode(Tail(str)))
  ELSE Err("DECODING_ERROR")

(***************************************************************************)
(* CBOR (RFC 8949), the part of it the proof values use: unsigned and      *)
(* negative integers, byte strings, text strings, arrays and maps, with    *)
(* the shortest-form heads cbor2 writes.                                   *)
(***************************************************************************)
CUint(n) == [k |-> "uint", n |-> n, s |-> <<>>]
CNint(n) == [k |-> "nint", n |-> n, s |-> <<>>]
CBytes(b) == [k |-> "bytes", n |-> 0, s |-> b]
CText(t) == [k |-> "text", n |-> 0, s |-> t]
CArray(items) == [k |-> "array", n |-> 0, s |-> items]
CMap(pairs) == [k |-> "map", n |-> 0, s |-> pairs]
COther == [k |-> "other", n |-> 0, s |-> <<>>]

CInt(n) == IF n >= 0 THEN CUint(n) ELSE CNint(n)

CborHead(major, n) ==
  IF n < 24 THEN <<major * 32 + n>>
  ELSE IF n < 256 THEN <<major * 32 + 24, n>>
  ELSE <<major * 32 + 25, n \div 256, n % 256>>

RECURSIVE CborEncode(_)
CborEncode(x) ==
  CASE x.k = "uint" -> CborHead(0, x.n)
    [] x.k = "nint" -> CborHead(1, (0 - 1) - x.n)
    [] x.k = "bytes" -> CborHead(2, Len(x.s)) \o x.s
    [] x.k = "text" -> CborHead(3, Len(x.s)) \o x.s
    [] x.k = "array" ->
         CborHead(4, Len(x.s)) \o Flatten([i \in 1..Len(x.s) |-> CborEncode(x.s[i])])
    [] x.k = "map" ->
         CborHead(5, Len(x.s)) \o
         Flatten([i \in 1..Len(x.s) |-> CborEncode(x.s[i][1]) \o CborEncode(x.s[i][2])])
    [] OTHER -> <<246>>

CborFail == [ok |-> FALSE, v |-> <<>>, next |-> 0]

\* the argument of the head at position p: [ok, n, next]
CborArg(b, p) ==
  LET ai == b[p] % 32
  IN  IF ai < 24 THEN [ok |-> TRUE, n |-> ai, next |-> p + 1]
      ELSE IF ai = 24 /\ p + 1 <= Len(b) THEN [ok |-> TRUE, n |-> b[p + 1], next |-> p + 2]
      ELSE IF ai = 25 /\ p + 2 <= Len(b)
           THEN [ok |-> TRUE, n |-> b[p + 1] * 256 + b[p + 2], next |-> p + 3]
      ELSE [ok |-> FALSE, n |-> 0, next |-> 0]

RECURSIVE CborDecodeAt(_, _), CborDecodeItems(_, _, _)
\* one data item starting at position p: [ok, v, next], v the item (one element)
CborDecodeAt(b, p) ==
  IF p > Len(b) THEN CborFail
  ELSE
    LET major == b[p] \div 32
        a == CborArg(b, p)
    IN  IF ~a.ok THEN CborFail
        ELSE CASE major = 0 -> [ok |-> TRUE, v |-> <<CUint(a.n)>>, next |-> a.next]
               [] major = 1 -> [ok |-> TRUE, v |-> <<CNint((0 - 1) - a.n)>>, next |-> a.next]
               [] major = 2 \/ major = 3 ->
                    IF a.next + a.n - 1 > Len(b) THEN CborFail
                    ELSE LET body == SubSeq(b, a.next, a.next + a.n - 1)
                         IN  [ok |-> TRUE,
                              v |-> <<IF major = 2 THEN CBytes(body) ELSE CText(body)>>,
                              next |-> a.next + a.n]
               [] major = 4 ->
                    LET r == CborDecodeItems(b, a.next, a.n)
                    IN  IF ~r.ok THEN CborFail
                        ELSE [ok |-> TRUE, v |-> <<CArray(r.v)>>, next |-> r.next]
               [] major = 5 ->
                    LET r == CborDecodeItems(b, a.next, 2 * a.n)
                    IN  IF ~r.ok THEN CborFail
                        ELSE [ok |-> TRUE,
                              v |-> <<CMap([i \in 1..a.n |-> <<r.v[2 * i - 1], r.v[2 * i]>>])>>,
                              next |-> r.next]
               [] major = 7 /\ b[p] % 32 < 24 ->
                    [ok |-> TRUE, v |-> <<COther>>, next |-> p + 1]
               [] OTHER -> CborFail

\* n consecutive data items starting at position p: [ok, v, next], v the items
CborDecodeItems(b, p, n) ==
  IF n = 0 THEN [ok |-> TRUE, v |-> <<>>, next |-> p]
  ELSE LET first == CborDecodeAt(b, p)
       IN  IF ~first.ok THEN CborFail
           ELSE LET rest == CborDecodeItems(b, first.next, n - 1)
                IN  IF ~rest.ok THEN CborFail
                    ELSE [ok |-> TRUE, v |-> first.v \o rest.v, next |-> rest.next]

\* cbor.encode / cbor.decode: decode throws on malformed or trailing bytes
cbor_encode(x) == CborEncode(x)

cbor_decode(b) ==
  LET r == CborDecodeAt(b, 1)
  IN  IF r.ok /\ r.next = Len(b) + 1 THEN Ok(r.v[1]) ELSE Err("CBOR_ERROR")

(***************************************************************************)
(* Feature (constant/feature.ts) and the header tables (constant/prefix.ts) *)
(***************************************************************************)
BASELINE == "baseline"
ANONYMOUS_HOLDER_BINDING == "anonymous_holder_binding"
PSEUDONYM == "pseudonym"
HOLDER_BINDING_PSEUDONYM == "holder_binding_pseudonym"

Feature == {BASELINE, ANONYMOUS_HOLDER_BINDING, PSEUDONYM, HOLDER_BINDING_PSEUDONYM}

IsNymFeature(f) == f = PSEUDONYM \/ f = HOLDER_BINDING_PSEUDONYM

\* the hex strings "d95d02" ... as digit values
CBOR_BASE(f) ==
  CASE f = BASELINE -> <<13, 9, 5, 13, 0, 2>>
    [] f = ANONYMOUS_HOLDER_BINDING -> <<13, 9, 5, 13, 0, 4>>
    [] f = PSEUDONYM -> <<13, 9, 5, 13, 0, 6>>
    [] f = HOLDER_BINDING_PSEUDONYM -> <<13, 9, 5, 13, 0, 8>>

\* what the derived table must not be: the base headers once more
CBOR_DERIVED_SameAsBase(f) == CBOR_BASE(f)

CBOR_DERIVED(f) ==
  CASE f = BASELINE -> <<13, 9, 5, 13, 0, 3>>
    [] f = ANONYMOUS_HOLDER_BINDING -> <<13, 9, 5, 13, 0, 5>>
    [] f = PSEUDONYM -> <<13, 9, 5, 13, 0, 7>>
    [] f = HOLDER_BINDING_PSEUDONYM -> <<13, 9, 5, 13, 0, 9>>

\* the featureMap objects of the two parsers: third header byte -> feature,
\* None for a byte that is no key of the object
\* two things the base featureMap must not be: one with two features
\* exchanged, and one that takes any byte for a feature
BaseFeatureMapSwapped(byte) ==
  CASE byte = 2 -> Some(BASELINE)
    [] byte = 4 -> Some(PSEUDONYM)
    [] byte = 6 -> Some(ANONYMOUS_HOLDER_BINDING)
    [] byte = 8 -> Some(HOLDER_BINDING_PSEUDONYM)
    [] OTHER -> None

BaseFeatureMapLoose(byte) ==
  CASE byte = 4 -> Some(ANONYMOUS_HOLDER_BINDING)
    [] byte = 6 -> Some(PSEUDONYM)
    [] byte = 8 -> Some(HOLDER_BINDING_PSEUDONYM)
    [] OTHER -> Some(BASELINE)

BaseFeatureMap(byte) ==
  CASE byte = 2 -> Some(BASELINE)
    [] byte = 4 -> Some(ANONYMOUS_HOLDER_BINDING)
    [] byte = 6 -> Some(PSEUDONYM)
    [] byte = 8 -> Some(HOLDER_BINDING_PSEUDONYM)
    [] OTHER -> None

DerivedFeatureMap(byte) ==
  CASE byte = 3 -> Some(BASELINE)
    [] byte = 5 -> Some(ANONYMOUS_HOLDER_BINDING)
    [] byte = 7 -> Some(PSEUDONYM)
    [] byte = 9 -> Some(HOLDER_BINDING_PSEUDONYM)
    [] OTHER -> None

(***************************************************************************)
(* utils/guard.ts                                                          *)
(***************************************************************************)
isUint8Array(value) == value.k = "bytes"
isUint8ArrayOf(value, length) == value.k = "bytes" /\ Len(value.s) = length
isString(value) == value.k = "text"
isNaturalNumber(value) == value.k = "uint"
isInteger(value) == value.k = "uint" \/ value.k = "nint"

(***************************************************************************)
(* selective/label.ts.  A LabelMap is the sequence of its entries          *)
(* <<key, value>> in insertion order, with pairwise different keys.        *)
(***************************************************************************)
IsDigit(c) == c >= 48 /\ c <= 57

RECURSIVE DigitsValue(_, _)
\* the value of the longest prefix of digits of s, continuing from acc
DigitsValue(s, acc) ==
  IF s = <<>> \/ ~IsDigit(Head(s)) THEN acc
  ELSE DigitsValue(Tail(s), acc * 10 + (Head(s) - Ch0))

RECURSIVE SkipSpaces(_)
SkipSpaces(s) == IF s # <<>> /\ Head(s) = ChSpace THEN SkipSpaces(Tail(s)) ELSE s

\* parseInt(s, 10): [nan, n]
parseInt(s) ==
  LET t == SkipSpaces(s)
      neg == t # <<>> /\ Head(t) = ChMinus
      u == IF t # <<>> /\ (Head(t) = ChMinus \/ Head(t) = ChPlus) THEN Tail(t) ELSE t
  IN  IF u = <<>> \/ ~IsDigit(Head(u)) THEN [nan |-> TRUE, n |-> 0]
      ELSE [nan |-> FALSE, n |-> IF neg THEN 0 - DigitsValue(u, 0) ELSE DigitsValue(u, 0)]

RECURSIVE NatToString(_)
NatToString(n) ==
  IF n < 10 THEN <<Ch0 + n>> ELSE NatToString(n \div 10) \o <<Ch0 + (n % 10)>>

\* `${n}` for an integer n
IntToString(n) == IF n < 0 THEN <<ChMinus>> \o NatToString(0 - n) ELSE NatToString(n)

MapHas(m, key) == \E i \in 1..Len(m) : m[i][1] = key

\* Map.prototype.set: a present key keeps its place and takes the new value
MapSet(m, key, value) ==
  IF MapHas(m, key)
  THEN [i \in 1..Len(m) |-> IF m[i][1] = key THEN <<key, value>> ELSE m[i]]
  ELSE Append(m, <<key, value>>)

RECURSIVE compressLoop(_, _)
compressLoop(entries, map) ==
  IF entries = <<>> THEN Ok(map)
  ELSE LET key == Head(entries)[1]
           value == Head(entries)[2]
           index == parseInt(Drop(key, Len(BLANK_LABEL)))
           data == parseInt(Drop(value, Len(COMPRESSED_VALUE)))
       IN  IF ~StartsWith(key, BLANK_LABEL) THEN Err("PROOF_GENERATION_ERROR")
           ELSE IF ~StartsWith(value, COMPRESSED_VALUE) THEN Err("PROOF_GENERATION_ERROR")
           ELSE IF index.nan \/ data.nan THEN Err("PROOF_GENERATION_ERROR")
           ELSE compressLoop(Tail(entries), MapSet(map, index.n, data.n))

compressLabelMap(labelMap) == compressLoop(labelMap, <<>>)

RECURSIVE decompressLoop(_, _)
decompressLoop(entries, map) ==
  IF entries = <<>> THEN map
  ELSE decompressLoop(Tail(entries),
                      MapSet(map,
                             BLANK_LABEL \o IntToString(Head(entries)[1]),
                             COMPRESSED_VALUE \o IntToString(Head(entries)[2])))

\* a decompression that forgets the prefixes
decompressLabelMapBare(compressedLabelMap) ==
  [i \in 1..Len(compressedLabelMap) |->
     <<IntToString(compressedLabelMap[i][1]), IntToString(compressedLabelMap[i][2])>>]

decompressLabelMap(compressedLabelMap) == decompressLoop(compressedLabelMap, <<>>)

(***************************************************************************)
(* selective/assert.ts.  A failed assert throws an AssertionError.         *)
(***************************************************************************)
SigLen == 80
HeaderLen == 64
PublicKeyLen == 96
HmacKeyLen == 32

assertBaseProofValue(components) ==
  IF ~(components.k = "array" /\ (Len(components.s) = 5 \/ Len(components.s) = 6))
    THEN Err("AssertionError")
  ELSE LET c == components.s IN
  IF ~isUint8ArrayOf(c[1], SigLen) THEN Err("AssertionError")
  ELSE IF ~isUint8ArrayOf(c[2], HeaderLen) THEN Err("AssertionError")
  ELSE IF ~isUint8ArrayOf(c[3], PublicKeyLen) THEN Err("AssertionError")
  ELSE IF ~isUint8ArrayOf(c[4], HmacKeyLen) THEN Err("AssertionError")
  ELSE IF ~(c[5].k = "array" /\ \A i \in 1..Len(c[5].s) : isString(c[5].s[i]))
    THEN Err("AssertionError")
  ELSE IF Len(c) = 6 /\ ~isUint8Array(c[6]) THEN Err("AssertionError")
  ELSE Ok([bbsSignature |-> c[1].s,
           bbsHeader |-> c[2].s,
           publicKey |-> c[3].s,
           hmacKey |-> c[4].s,
           mandatoryPointers |-> [i \in 1..Len(c[5].s) |-> c[5].s[i].s],
           signerNymEntropy |-> IF Len(c) = 6 THEN Some(c[6].s) ELSE None])

assertCompressedProofValue(components) ==
  IF ~(components.k = "array" /\ Len(components.s) \in {5, 6, 8})
    THEN Err("AssertionError")
  ELSE LET c == components.s IN
  IF ~isUint8Array(c[1]) THEN Err("AssertionError")
  ELSE IF ~(c[2].k = "map" /\
            \A i \in 1..Len(c[2].s) : isInteger(c[2].s[i][1]) /\ isInteger(c[2].s[i][2]))
    THEN Err("AssertionError")
  ELSE IF ~(c[3].k = "array" /\ \A i \in 1..Len(c[3].s) : isNaturalNumber(c[3].s[i]))
    THEN Err("AssertionError")
  ELSE IF ~(c[4].k = "array" /\ \A i \in 1..Len(c[4].s) : isNaturalNumber(c[4].s[i]))
    THEN Err("AssertionError")
  ELSE IF ~isUint8Array(c[5]) THEN Err("AssertionError")
  ELSE IF Len(c) = 6 /\ ~isNaturalNumber(c[6]) THEN Err("AssertionError")
  ELSE IF Len(c) = 8 /\ ~(isUint8Array(c[6]) /\ isUint8Array(c[7]) /\ isNaturalNumber(c[8]))
    THEN Err("AssertionError")
  ELSE Ok([bbsProof |-> c[1].s,
           compressedLabelMap |-> [i \in 1..Len(c[2].s) |-> <<c[2].s[i][1].n, c[2].s[i][2].n>>],
           mandatoryIndexes |-> [i \in 1..Len(c[3].s) |-> c[3].s[i].n],
           selectiveIndexes |-> [i \in 1..Len(c[4].s) |-> c[4].s[i].n],
           presentationHeader |-> c[5].s,
           nymDomain |-> IF Len(c) = 8 THEN Some(c[6].s) ELSE None,
           pseudonym |-> IF Len(c) = 8 THEN Some(c[7].s) ELSE None,
           lengthBBSMessages |->
             IF Len(c) = 6 THEN Some(c[6].n)
             ELSE IF Len(c) = 8 THEN Some(c[8].n) ELSE None])

(***************************************************************************)
(* selective/serialize.ts                                                  *)
(***************************************************************************)
BaseComponents(proofValue) ==
  <<CBytes(proofValue.bbsSignature),
    CBytes(proofValue.bbsHeader),
    CBytes(proofValue.publicKey),
    CBytes(proofValue.hmacKey),
    CArray([i \in 1..Len(proofValue.mandatoryPointers) |->
              CText(proofValue.mandatoryPointers[i])])>>

serializeBaseProofValue(proofValue) ==
  IF IsNymFeature(proofValue.feature) /\ proofValue.signerNymEntropy = None
  THEN Err("PROOF_GENERATION_ERROR")
  ELSE
    LET components ==
          IF IsNymFeature(proofValue.feature)
          THEN BaseComponents(proofValue) \o <<CBytes(proofValue.signerNymEntropy[1])>>
          ELSE BaseComponents(proofValue)
        asserted == assertBaseProofValue(CArray(components))
        prefix == hexToBytes(CBOR_BASE(proofValue.feature))
        proofValueBytes == concatenate(prefix, cbor_encode(CArray(components)))
    IN  IF ~asserted.ok THEN Err(asserted.code)
        ELSE Ok(base64urlnopad_encode(proofValueBytes))

DerivedComponents(proofValue, compressedLabelMap) ==
  <<CBytes(proofValue.bbsProof),
    CMap([i \in 1..Len(compressedLabelMap) |->
            <<CInt(compressedLabelMap[i][1]), CInt(compressedLabelMap[i][2])>>]),
    CArray([i \in 1..Len(proofValue.mandatoryIndexes) |-> CInt(proofValue.mandatoryIndexes[i])]),
    CArray([i \in 1..Len(proofValue.selectiveIndexes) |-> CInt(proofValue.selectiveIndexes[i])]),
    CBytes(proofValue.presentationHeader)>>

\* !proofValue.lengthBBSMessages: undefined and 0 are both falsy
LengthFalsy(lengthBBSMessages) == lengthBBSMessages = None \/ lengthBBSMessages[1] = 0

serializeDerivedProofValue(proofValue) ==
  LET compressed == compressLabelMap(proofValue.labelMap) IN
  IF ~compressed.ok THEN Err(compressed.code)
  ELSE IF /\ proofValue.feature = ANONYMOUS_HOLDER_BINDING
          /\ LengthFalsy(proofValue.lengthBBSMessages)
    THEN Err("PROOF_GENERATION_ERROR")
  ELSE IF /\ IsNymFeature(proofValue.feature)
          /\ \/ proofValue.nymDomain = None
             \/ proofValue.pseudonym = None
             \/ LengthFalsy(proofValue.lengthBBSMessages)
    THEN Err("PROOF_GENERATION_ERROR")
  ELSE
    LET first == DerivedComponents(proofValue, compressed.val[1])
        components ==
          IF proofValue.feature = ANONYMOUS_HOLDER_BINDING
          THEN first \o <<CInt(proofValue.lengthBBSMessages[1])>>
          ELSE IF IsNymFeature(proofValue.feature)
          THEN first \o <<CBytes(proofValue.nymDomain[1]),
                          CBytes(proofValue.pseudonym[1]),
                          CInt(proofValue.lengthBBSMessages[1])>>
          ELSE first
        asserted == assertCompressedProofValue(CArray(components))
        prefix == hexToBytes(CBOR_DERIVED(proofValue.feature))
        proofValueBytes == concatenate(prefix, cbor_encode(CArray(components)))
    IN  IF ~asserted.ok THEN Err(asserted.code)
        ELSE Ok(base64urlnopad_encode(proofValueBytes))

\* The parsers are written as chains of operators, each taking the value the
\* step before it computed.  Whatever the try block throws is caught and
\* rethrown as PROOF_VERIFICATION_ERROR.

\* the returned base proof value: the asserted components and the feature
BaseParsed(v, feature) ==
  IF IsNymFeature(feature) /\ v.signerNymEntropy = None
    THEN Err("PROOF_VERIFICATION_ERROR")
  ELSE Ok([bbsSignature |-> v.bbsSignature,
           bbsHeader |-> v.bbsHeader,
           publicKey |-> v.publicKey,
           hmacKey |-> v.hmacKey,
           mandatoryPointers |-> v.mandatoryPointers,
           signerNymEntropy |-> v.signerNymEntropy,
           feature |-> feature])

BaseAsserted(partialProofValue, feature) ==
  IF ~partialProofValue.ok THEN Err("PROOF_VERIFICATION_ERROR")
  ELSE BaseParsed(partialProofValue.val[1], feature)

BaseDecoded(components, feature) ==
  IF ~components.ok THEN Err("PROOF_VERIFICATION_ERROR")
  ELSE BaseAsserted(assertBaseProofValue(components.val[1]), feature)

\* the try block of parseBaseProofValue
ParseBaseComponents(bytes, feature) == BaseDecoded(cbor_decode(bytes), feature)

BaseFeatureOf(decodedProofValue, feature) ==
  IF feature = None THEN Err("PROOF_VERIFICATION_ERROR")
  ELSE ParseBaseComponents(Drop(decodedProofValue, 3), feature[1])

BaseHeaderOf(decoded) ==
  IF ~decoded.ok THEN Err("PROOF_VERIFICATION_ERROR")
  ELSE IF \/ Len(decoded.val[1]) < 3
          \/ decoded.val[1][1] # 217
          \/ decoded.val[1][2] # 93
    THEN Err("PROOF_VERIFICATION_ERROR")
  ELSE BaseFeatureOf(decoded.val[1], BaseFeatureMap(decoded.val[1][3]))

parseBaseProofValue(proofValue) == BaseHeaderOf(base64urlnopad_decode(proofValue))

\* the returned derived proof value
DerivedParsed(v, feature) ==
  IF feature = ANONYMOUS_HOLDER_BINDING /\ LengthFalsy(v.lengthBBSMessages)
    THEN Err("PROOF_VERIFICATION_ERROR")
  ELSE IF /\ IsNymFeature(feature)
          /\ (v.nymDomain = None \/ v.pseudonym = None \/ LengthFalsy(v.lengthBBSMessages))
    THEN Err("PROOF_VERIFICATION_ERROR")
  ELSE Ok([bbsProof |-> v.bbsProof,
           compressedLabelMap |-> v.compressedLabelMap,
           mandatoryIndexes |-> v.mandatoryIndexes,
           selectiveIndexes |-> v.selectiveIndexes,
           presentationHeader |-> v.presentationHeader,
           nymDomain |-> v.nymDomain,
           pseudonym |-> v.pseudonym,
           lengthBBSMessages |-> v.lengthBBSMessages,
           feature |-> feature,
           labelMap |-> decompressLabelMap(v.compressedLabelMap)])

DerivedAsserted(partialProofValue, feature) ==
  IF ~partialProofValue.ok THEN Err("PROOF_VERIFICATION_ERROR")
  ELSE DerivedParsed(partialProofValue.val[1], feature)

DerivedDecoded(components, feature) ==
  IF ~components.ok THEN Err("PROOF_VERIFICATION_ERROR")
  ELSE DerivedAsserted(assertCompressedProofValue(components.val[1]), feature)

\* the try block of parseDerivedProofValue
ParseDerivedComponents(bytes, feature) == DerivedDecoded(cbor_decode(bytes), feature)

DerivedFeatureOf(decodedProofValue, feature) ==
  IF feature = None THEN Err("PROOF_VERIFICATION_ERROR")
  ELSE ParseDerivedComponents(Drop(decodedProofValue, 3), feature[1])

DerivedHeaderOf(decoded) ==
  IF ~decoded.ok THEN Err("PROOF_VERIFICATION_ERROR")
  ELSE IF \/ Len(decoded.val[1]) < 3
          \/ decoded.val[1][1] # 217
          \/ decoded.val[1][2] # 93
    THEN Err("PROOF_VERIFICATION_ERROR")
  ELSE DerivedFeatureOf(decoded.val[1], DerivedFeatureMap(decoded.val[1][3]))

parseDerivedProofValue(proofValue) == DerivedHeaderOf(base64urlnopad_decode(proofValue))

(***************************************************************************)
(* The envelope machine: a proof value is serialized, the wire string may  *)
(* be tampered with once, and a parser is run on it.                       *)
(***************************************************************************)


\* bounds of the inputs
MaxFill == 2
MaxLengthBBS == 2

\* a byte string of the given length, different for different seeds
Fill(len, seed) == [i \in 1..len |-> (seed * 89 + i * 7) % 256]

\* "/a", "/b/0"
PointerLists == {<<>>, <<<<47, 97>>>>, <<<<47, 97>>, <<47, 98, 47, 48>>>>}

BaseValues ==
  [bbsSignature : {Fill(SigLen, s) : s \in 1..MaxFill} \cup {Fill(SigLen - 1, 1)},
   bbsHeader : {Fill(HeaderLen, 3)},
   publicKey : {Fill(PublicKeyLen, 4)},
   hmacKey : {Fill(HmacKeyLen, 5)},
   mandatoryPointers : PointerLists,
   feature : Feature,
   signerNymEntropy : {None, Some(<<>>), Some(Fill(32, 6))}]

\* c14n0 -> b3, c14n2 -> b0; c14n12 -> b10
LabelMaps ==
  {<<>>,
   <<<<BLANK_LABEL \o <<48>>, COMPRESSED_VALUE \o <<51>>>>,
     <<BLANK_LABEL \o <<50>>, COMPRESSED_VALUE \o <<48>>>>>>,
   <<<<BLANK_LABEL \o <<49, 50>>, COMPRESSED_VALUE \o <<49, 48>>>>>>}

DerivedValues ==
  {[bbsProof |-> Fill(40, s),
    labelMap |-> m,
    mandatoryIndexes |-> ix[1],
    selectiveIndexes |-> ix[2],
    presentationHeader |-> ph,
    feature |-> f,
    nymDomain |-> nym[1],
    pseudonym |-> nym[2],
    lengthBBSMessages |-> l] :
     s \in 1..MaxFill, m \in LabelMaps, f \in Feature,
     ix \in {<<<<>>, <<>>>>, <<<<0, 2>>, <<1, 30>>>>},
     ph \in {<<>>, <<1, 2>>},
     nym \in {<<None, None>>, <<Some(<<7, 7>>), Some(Fill(48, 8))>>},
     l \in {None} \cup {Some(n) : n \in 0..MaxLengthBBS}}

\* the data-model invariants of section 3
ValidBase(v) ==
  /\ Len(v.bbsSignature) = SigLen
  /\ Len(v.bbsHeader) = HeaderLen
  /\ Len(v.publicKey) = PublicKeyLen
  /\ Len(v.hmacKey) = HmacKeyLen
  /\ (v.signerNymEntropy # None) <=> IsNymFeature(v.feature)

ValidDerived(v) ==
  /\ (v.lengthBBSMessages # None) <=> (v.feature # BASELINE)
  /\ (v.nymDomain # None) <=> IsNymFeature(v.feature)
  /\ (v.pseudonym # None) <=> IsNymFeature(v.feature)

EnvInit ==
  /\ envPhase = "start"
  /\ envKind = "none"
  /\ envValue = None
  /\ envSer = Err("")
  /\ envWire = <<>>
  /\ envIntact = FALSE
  /\ envParser = "none"
  /\ envParsed = Err("")

SerializeBase ==
  /\ envPhase = "start"
  /\ \E v \in BaseValues :
       LET result == serializeBaseProofValue(v) IN
       /\ envPhase' = IF result.ok THEN "wire" ELSE "failed"
       /\ envKind' = "base"
       /\ envValue' = Some(v)
       /\ envSer' = result
       /\ envWire' = IF result.ok THEN result.val[1] ELSE <<>>
       /\ envIntact' = result.ok
  /\ UNCHANGED <<envParser, envParsed>>
  /\ UNCHANGED notEnvVars

SerializeDerived ==
  /\ envPhase = "start"
  /\ \E v \in DerivedValues :
       LET result == serializeDerivedProofValue(v) IN
       /\ envPhase' = IF result.ok THEN "wire" ELSE "failed"
       /\ envKind' = "derived"
       /\ envValue' = Some(v)
       /\ envSer' = result
       /\ envWire' = IF result.ok THEN result.val[1] ELSE <<>>
       /\ envIntact' = result.ok
  /\ UNCHANGED <<envParser, envParsed>>
  /\ UNCHANGED notEnvVars

\* the bytes under the multibase prefix of the wire string
WireBytes == IF envWire = <<>> THEN <<>> ELSE Base64UrlDecode(Tail(envWire))

\* another first character, no first character, or the empty string
TamperPrefix ==
  /\ envPhase = "wire" /\ envIntact
  /\ \E wire \in {<<ChZ>> \o Tail(envWire), Tail(envWire), <<>>} : envWire' = wire
  /\ envIntact' = FALSE
  /\ UNCHANGED <<envPhase, envKind, envValue, envSer, envParser, envParsed>>
  /\ UNCHANGED notEnvVars

\* fewer than three bytes
TamperTruncate ==
  /\ envPhase = "wire" /\ envIntact
  /\ \E n \in 0..2 : envWire' = base64urlnopad_encode(SubSeq(WireBytes, 1, n))
  /\ envIntact' = FALSE
  /\ UNCHANGED <<envPhase, envKind, envValue, envSer, envParser, envParsed>>
  /\ UNCHANGED notEnvVars

\* another byte in the two-byte tag
TamperTag ==
  /\ envPhase = "wire" /\ envIntact
  /\ \E i \in 1..2 : envWire' = base64urlnopad_encode([WireBytes EXCEPT ![i] = 216])
  /\ envIntact' = FALSE
  /\ UNCHANGED <<envPhase, envKind, envValue, envSer, envParser, envParsed>>
  /\ UNCHANGED notEnvVars

\* another third header byte
TamperFeature ==
  /\ envPhase = "wire" /\ envIntact
  /\ \E b \in 2..10 :
       /\ b # WireBytes[3]
       /\ envWire' = base64urlnopad_encode([WireBytes EXCEPT ![3] = b])
  /\ envIntact' = FALSE
  /\ UNCHANGED <<envPhase, envKind, envValue, envSer, envParser, envParsed>>
  /\ UNCHANGED notEnvVars

ParseBase ==
  /\ envPhase = "wire"
  /\ envPhase' = "parsed"
  /\ envParser' = "base"
  /\ envParsed' = parseBaseProofValue(envWire)
  /\ UNCHANGED <<envKind, envValue, envSer, envWire, envIntact>>
  /\ UNCHANGED notEnvVars

ParseDerived ==
  /\ envPhase = "wire"
  /\ envPhase' = "parsed"
  /\ envParser' = "derived"
  /\ envParsed' = parseDerivedProofValue(envWire)
  /\ UNCHANGED <<envKind, envValue, envSer, envWire, envIntact>>
  /\ UNCHANGED notEnvVars

EnvNext ==
  \/ SerializeBase
  \/ SerializeDerived
  \/ TamperPrefix
  \/ TamperTruncate
  \/ TamperTag
  \/ TamperFeature
  \/ ParseBase
  \/ ParseDerived


(***************************************************************************)
(* The collaborators of the pipeline.  A document is [n, blanks]: n        *)
(* statements 0..n-1 in input order, the statements after the first one    *)
(* sharing `blanks` blank nodes 1..blanks in turn.  The JSON pointer "/sI" *)
(* selects statement I.                                                    *)
(***************************************************************************)
BlankOf(doc, stmt) ==
  IF doc.blanks = 0 \/ stmt = 0 THEN 0 ELSE ((stmt - 1) % doc.blanks) + 1

\* "/s" and the digit of the statement
Pointer(stmt) == <<ChSlash, 115, Ch0 + stmt>>

Selected(pointers) == {pointers[i][3] - Ch0 : i \in 1..Len(pointers)}

\* the N-Quad of a statement: "<sI>", or "_:" label " sI" for a blank subject
NQuadText(stmt, label) ==
  IF label = None THEN <<60, 115, Ch0 + stmt, 62>>
  ELSE <<95, 58>> \o label[1] \o <<ChSpace, 115, Ch0 + stmt>>

RECURSIVE LexLess(_, _)
LexLess(a, b) ==
  IF a = <<>> THEN b # <<>>
  ELSE IF b = <<>> THEN FALSE
  ELSE IF Head(a) # Head(b) THEN Head(a) < Head(b)
  ELSE LexLess(Tail(a), Tail(b))

RECURSIVE SortQuads(_)
\* the entries [stmt, nq] of a set, in the code-point order of their N-Quads
SortQuads(S) ==
  IF S = {} THEN <<>>
  ELSE LET m == CHOOSE e \in S : \A o \in S : o = e \/ LexLess(e.nq, o.nq)
       IN  <<m>> \o SortQuads(S \ {m})

\* selective.createShuffledIdLabelMapFunction(hmac): the label "b" index the
\* HMAC order gives blank node j; the order depends on the key
HmacLabel(doc, hmacKey, j) ==
  COMPRESSED_VALUE \o IntToString(IF hmacKey[1] % 2 = 1 THEN j - 1 ELSE doc.blanks - j)

\* the canonical N-Quad list of canonicalizeAndGroup: [stmt, nq] in order
Canonical(doc, hmacKey) ==
  SortQuads({[stmt |-> i,
              nq |-> NQuadText(i, IF BlankOf(doc, i) = 0 THEN None
                                  ELSE Some(HmacLabel(doc, hmacKey, BlankOf(doc, i))))] :
               i \in 0..(doc.n - 1)})

\* the two maps of a group: entries <<index, nq>> in ascending index order
Matching(canon, pointers) ==
  LET idx == SetToSeq({i \in 1..Len(canon) : canon[i].stmt \in Selected(pointers)})
  IN  [j \in 1..Len(idx) |-> <<idx[j] - 1, canon[idx[j]].nq>>]

NonMatching(canon, pointers) ==
  LET idx == SetToSeq({i \in 1..Len(canon) : canon[i].stmt \notin Selected(pointers)})
  IN  [j \in 1..Len(idx) |-> <<idx[j] - 1, canon[idx[j]].nq>>]

MapKeys(m) == [i \in 1..Len(m) |-> m[i][1]]
MapValues(m) == [i \in 1..Len(m) |-> m[i][2]]
MapGet(m, key) == m[CHOOSE i \in 1..Len(m) : m[i][1] = key][2]

\* the blank nodes of a set of statements, ascending
BlanksIn(doc, stmts) == SetToSeq({BlankOf(doc, i) : i \in stmts} \ {0})

\* the label plain RDFC-1.0 gives blank node j of a document that holds
\* the statements stmts: "c14n" and its rank
C14nLabel(doc, stmts, j) ==
  LET present == BlanksIn(doc, stmts)
  IN  BLANK_LABEL \o IntToString((CHOOSE k \in 1..Len(present) : present[k] = j) - 1)

\* selective.selectJsonLd(pointers, document): the statements kept
selectJsonLd(pointers, doc) == [doc |-> doc, stmts |-> Selected(pointers)]

\* selective.labelReplacementCanonicalizeJsonLd(document, createLabelMapFunction(labelMap)):
\* the N-Quads of the revealed statements, relabelled by labelMap and sorted;
\* it throws when labelMap misses a label
labelReplacementCanonicalizeJsonLd(reveal, labelMap) ==
  IF \E i \in reveal.stmts :
       /\ BlankOf(reveal.doc, i) # 0
       /\ ~MapHas(labelMap, C14nLabel(reveal.doc, reveal.stmts, BlankOf(reveal.doc, i)))
  THEN Err("CANONIZE_ERROR")
  ELSE
    LET sorted ==
          SortQuads({[stmt |-> i,
                      nq |-> NQuadText(i,
                               IF BlankOf(reveal.doc, i) = 0 THEN None
                               ELSE Some(MapGet(labelMap,
                                      C14nLabel(reveal.doc, reveal.stmts,
                                                BlankOf(reveal.doc, i)))))] :
                       i \in reveal.stmts})
    IN  Ok([i \in 1..Len(sorted) |-> sorted[i].nq])

RECURSIVE WeightedSum(_, _, _)
\* the sum of the position-weighted elements lo..hi of a string
WeightedSum(bytes, lo, hi) ==
  IF lo > hi THEN 0
  ELSE IF lo = hi THEN (lo * (bytes[lo] + 1)) % 65521
  ELSE (WeightedSum(bytes, lo, (lo + hi) \div 2)
        + WeightedSum(bytes, ((lo + hi) \div 2) + 1, hi)) % 65521

Digest(bytes) == (WeightedSum(bytes, 1, Len(bytes)) + Len(bytes)) % 65521

\* crypto.subtle.digest("SHA-256", data): 32 bytes that depend on the data
hasher(data) == Fill(32, Digest(data))

\* selective.hashMandatoryNQuads(mandatory, hasher): the hash of the joined N-Quads
hashMandatoryNQuads(mandatory) == hasher(Flatten(mandatory))

\* new TextEncoder().encode(nq), as a hex string
EncodeMessage(nq) == bytesToHex(nq)

\* basic.sign / blind.sign / nym.sign: SigLen bytes (as hex) that depend on
\* the keys, the header, the messages and the extra inputs of the feature
BbsSign(secretKey, publicKey, extra, header, messages) ==
  bytesToHex(Fill(SigLen,
    Digest(secretKey \o publicKey \o extra \o header \o Flatten(messages))))

\* basic.prove: bytes (as hex) that depend on every input
BbsProve(publicKey, signature, header, ph, messages, indexes) ==
  bytesToHex(Fill(40,
    Digest(publicKey \o signature \o header \o ph \o Flatten(messages) \o indexes)))

\* selective.canonicalizeAndGroup: one group per definition and the label map
\* from the blank nodes of the document to their HMAC labels
canonicalizeAndGroup(doc, hmacKey, groupDefinitions) ==
  LET canon == Canonical(doc, hmacKey)
  IN  [groups |-> [g \in DOMAIN groupDefinitions |->
                     [matching |-> Matching(canon, groupDefinitions[g]),
                      nonMatching |-> NonMatching(canon, groupDefinitions[g])]],
       labelMap |-> [j \in 1..doc.blanks |-> <<j, HmacLabel(doc, hmacKey, j)>>]]

(***************************************************************************)
(* suite/core.ts: transform, hash, serialize (the issuer) and derive (the  *)
(* holder); selective/prepare.ts: createDisclosureData, createVerifyData.  *)
(***************************************************************************)
\* the canonical proof configuration of config(), as bytes
CanonicalProofConfig == <<95, 58, 99, 49, 52, 110, 48, 32, 98, 98, 115, 45, 50, 48, 50, 51>>

transform(unsecuredDocument, options, rawHmacKey) ==
  IF ~options.suiteOk THEN Err("PROOF_TRANSFORMATION_ERROR")
  ELSE
    LET groups == canonicalizeAndGroup(unsecuredDocument, rawHmacKey,
                    [mandatory |-> options.mandatoryPointers]).groups
    IN  Ok([mandatoryPointers |-> options.mandatoryPointers,
            mandatory |-> groups.mandatory.matching,
            nonMandatory |-> groups.mandatory.nonMatching,
            hmacKey |-> rawHmacKey])

hash(transformedDocument, canonicalProofConfig) ==
  [mandatoryPointers |-> transformedDocument.mandatoryPointers,
   mandatory |-> transformedDocument.mandatory,
   nonMandatory |-> transformedDocument.nonMandatory,
   hmacKey |-> transformedDocument.hmacKey,
   proofHash |-> hasher(canonicalProofConfig),
   mandatoryHash |-> hashMandatoryNQuads(MapValues(transformedDocument.mandatory))]

\* a string option is falsy when it is undefined or empty
Falsy(opt) == opt = None \/ opt[1] = <<>>

\* The functions below are written as chains of operators, each taking the
\* values the statements before it computed.

\* the return statement of serialize
SerializeSigned(hashData, options, publicKey, bbsHeader, bbsSignature) ==
  serializeBaseProofValue(
    [bbsSignature |-> hexToBytes(bbsSignature),
     bbsHeader |-> hexToBytes(bbsHeader),
     publicKey |-> hexToBytes(publicKey),
     hmacKey |-> hashData.hmacKey,
     mandatoryPointers |-> hashData.mandatoryPointers,
     feature |-> options.feature,
     signerNymEntropy |->
       IF Falsy(options.signerNymEntropy) THEN None
       ELSE Some(hexToBytes(options.signerNymEntropy[1]))])

\* the signing branch of serialize, by feature
SerializeSign(hashData, options, secretKey, publicKey, bbsHeader, bbsMessages) ==
  IF options.feature = BASELINE
  THEN SerializeSigned(hashData, options, publicKey, bbsHeader,
         BbsSign(secretKey, publicKey, <<>>, bbsHeader, bbsMessages))
  ELSE IF options.feature = ANONYMOUS_HOLDER_BINDING
  THEN IF Falsy(options.commitmentWithProof) THEN Err("PROOF_GENERATION_ERROR")
       ELSE SerializeSigned(hashData, options, publicKey, bbsHeader,
              BbsSign(secretKey, publicKey, options.commitmentWithProof[1],
                      bbsHeader, bbsMessages))
  ELSE IF options.feature = PSEUDONYM \/ options.feature = HOLDER_BINDING_PSEUDONYM
  THEN IF Falsy(options.commitmentWithProof) \/ Falsy(options.signerNymEntropy)
       THEN Err("PROOF_GENERATION_ERROR")
       ELSE SerializeSigned(hashData, options, publicKey, bbsHeader,
              BbsSign(secretKey, publicKey,
                      options.signerNymEntropy[1] \o options.commitmentWithProof[1],
                      bbsHeader, bbsMessages))
  ELSE Err("PROOF_GENERATION_ERROR")

\* nquads.map((nq) => format.bytesToHex(new TextEncoder().encode(nq)))
EncodeMessages(nquads) == [i \in 1..Len(nquads) |-> EncodeMessage(nquads[i])]

\* a serialize that looks at the feature before it looks at the keys
serializeFeatureFirst(hashData, options, keypair) ==
  IF ~SerializeSign(hashData, options, <<>>, <<>>, <<>>, <<>>).ok
       /\ SerializeSign(hashData, options, <<>>, <<>>, <<>>, <<>>).code = "PROOF_GENERATION_ERROR"
  THEN Err("PROOF_GENERATION_ERROR")
  ELSE IF keypair.privateKey = None \/ keypair.publicKey = None
  THEN Err("INVALID_VERIFICATION_METHOD")
  ELSE SerializeSign(hashData, options,
         bytesToHex(keypair.privateKey[1]),
         bytesToHex(keypair.publicKey[1]),
         bytesToHex(concatenate(hashData.proofHash, hashData.mandatoryHash)),
         EncodeMessages(MapValues(hashData.nonMandatory)))

\* keypair is what Bls12381G2Keypair.import made of the verification method
serialize(hashData, options, keypair) ==
  IF keypair.privateKey = None \/ keypair.publicKey = None
  THEN Err("INVALID_VERIFICATION_METHOD")
  ELSE SerializeSign(hashData, options,
         bytesToHex(keypair.privateKey[1]),
         bytesToHex(keypair.publicKey[1]),
         bytesToHex(concatenate(hashData.proofHash, hashData.mandatoryHash)),
         EncodeMessages(MapValues(hashData.nonMandatory)))

\* format.bytesToHex applied to a string, as createDisclosureData applies it
\* to the presentation header derive hands over: every character padded to two
StringToHex(str) == Flatten([i \in 1..Len(str) |-> <<0, str[i]>>])

\* basic.prove may refuse a signature made for another feature, or a
\* disclosed index that is no index of the messages
ProveMayFail(baseFeature, messages, indexes) ==
  \/ baseFeature # BASELINE
  \/ \E i \in 1..Len(indexes) : indexes[i] >= Len(messages)

\* keys.filter((index) => map.has(index))
FilterHas(keys, map) ==
  LET kept == SetToSeq({i \in 1..Len(keys) : MapHas(map, keys[i])})
  IN  [j \in 1..Len(kept) |-> keys[kept[j]]]

\* rdfc.canonize on the combined N-Quads: from the blank nodes of the revealed
\* statements to the labels the verifier will give them
CanonicalIdMap(document, stmts) ==
  [k \in 1..Len(BlanksIn(document, stmts)) |->
     <<BlanksIn(document, stmts)[k],
       C14nLabel(document, stmts, BlanksIn(document, stmts)[k])>>]

\* verifierLabelMap.set(verifierLabel, labelMap.get(inputLabel)) for each entry
VerifierLabelMap(canonicalIdMap, labelMap) ==
  [k \in 1..Len(canonicalIdMap) |->
     <<canonicalIdMap[k][2], MapGet(labelMap, canonicalIdMap[k][1])>>]

\* createDisclosureData from the proof generation on
DisclosureProved(document, base, combinedPointers, options, proveOk, cg, mandatoryIndexes, selectiveIndexes, bbsMessages) ==
  IF options.feature # BASELINE THEN Err("PROOF_GENERATION_ERROR")
  ELSE IF ~proveOk /\ ProveMayFail(base.feature, bbsMessages, selectiveIndexes)
  THEN Err("BBS_ERROR")
  ELSE
    Ok([bbsProof |->
          hexToBytes(BbsProve(bytesToHex(base.publicKey),
                              bytesToHex(base.bbsSignature),
                              bytesToHex(base.bbsHeader),
                              IF Falsy(options.presentationHeader) THEN <<>>
                              ELSE StringToHex(options.presentationHeader[1]),
                              bbsMessages, selectiveIndexes)),
        labelMap |->
          VerifierLabelMap(CanonicalIdMap(document, Selected(combinedPointers)),
                           cg.labelMap),
        mandatoryIndexes |-> mandatoryIndexes,
        selectiveIndexes |-> selectiveIndexes,
        presentationHeader |->
          IF options.presentationHeader = None THEN <<>>
          ELSE options.presentationHeader[1],
        revealDocument |-> selectJsonLd(combinedPointers, document),
        \* the locals the indexes were computed from
        combinedMatch |-> cg.groups.combined.matching,
        mandatoryMatch |-> cg.groups.mandatory.matching,
        selectiveMatch |-> cg.groups.selective.matching,
        mandatoryNonMatch |-> cg.groups.mandatory.nonMatching,
        bbsMessages |-> bbsMessages])

\* a holder that takes its messages from the combined group
DisclosureGroupedCombined(document, base, combinedPointers, options, proveOk, cg) ==
  DisclosureProved(document, base, combinedPointers, options, proveOk, cg,
    FilterHas(MapKeys(cg.groups.combined.matching), cg.groups.mandatory.matching),
    FilterHas(MapKeys(cg.groups.mandatory.nonMatching), cg.groups.selective.matching),
    EncodeMessages(MapValues(cg.groups.combined.nonMatching)))

\* createDisclosureData from the index computation on
DisclosureGrouped(document, base, combinedPointers, options, proveOk, cg) ==
  DisclosureProved(document, base, combinedPointers, options, proveOk, cg,
    FilterHas(MapKeys(cg.groups.combined.matching), cg.groups.mandatory.matching),
    FilterHas(MapKeys(cg.groups.mandatory.nonMatching), cg.groups.selective.matching),
    EncodeMessages(MapValues(cg.groups.mandatory.nonMatching)))

\* parsed is the result of parseBaseProofValue(proof.proofValue), the first
\* statement of the function
createDisclosureData(document, parsed, selectivePointers, options, proveOk) ==
  IF ~parsed.ok THEN Err(parsed.code)
  ELSE
    DisclosureGrouped(document, parsed.val[1],
      parsed.val[1].mandatoryPointers \o selectivePointers, options, proveOk,
      canonicalizeAndGroup(document, parsed.val[1].hmacKey,
        [mandatory |-> parsed.val[1].mandatoryPointers,
         selective |-> selectivePointers,
         combined |-> parsed.val[1].mandatoryPointers \o selectivePointers]))

\* derive, from the disclosure data on
derive(data, options) ==
  IF ~data.ok THEN Err(data.code)
  ELSE
    serializeDerivedProofValue(
      [bbsProof |-> data.val[1].bbsProof,
       labelMap |-> data.val[1].labelMap,
       mandatoryIndexes |-> data.val[1].mandatoryIndexes,
       selectiveIndexes |-> data.val[1].selectiveIndexes,
       presentationHeader |->
         IF Falsy(options.presentationHeader) THEN <<>>
         ELSE hexToBytes(options.presentationHeader[1]),
       feature |-> options.feature,
       pseudonym |-> None,
       nymDomain |-> IF Falsy(options.nymDomain) THEN None
                     ELSE Some(hexToBytes(options.nymDomain[1])),
       lengthBBSMessages |-> options.lengthBBSMessages])

\* array.includes(index)
Includes(array, index) == \E k \in 1..Len(array) : array[k] = index

\* the forEach of createVerifyData: the N-Quads whose position (from 0) is in
\* mandatoryIndexes, and the others
MandatoryOf(canonicalNQuads, mandatoryIndexes) ==
  LET at == SetToSeq({i \in 1..Len(canonicalNQuads) : Includes(mandatoryIndexes, i - 1)})
  IN  [k \in 1..Len(at) |-> canonicalNQuads[at[k]]]

NonMandatoryOf(canonicalNQuads, mandatoryIndexes) ==
  LET at == SetToSeq({i \in 1..Len(canonicalNQuads) : ~Includes(mandatoryIndexes, i - 1)})
  IN  [k \in 1..Len(at) |-> canonicalNQuads[at[k]]]

\* the return statement of createVerifyData
VerifyDataOf(v, mandatory, nonMandatory) ==
  Ok([bbsProof |-> v.bbsProof,
      proofHash |-> hasher(CanonicalProofConfig),
      mandatoryHash |-> hashMandatoryNQuads(mandatory),
      selectiveIndexes |-> v.selectiveIndexes,
      presentationHeader |-> v.presentationHeader,
      nonMandatory |-> nonMandatory,
      feature |-> v.feature,
      pseudonym |-> v.pseudonym,
      lengthBBSMessages |-> v.lengthBBSMessages,
      \* the local list behind mandatoryHash
      mandatory |-> mandatory])

VerifyDataCanonized(v, nQuads) ==
  IF ~nQuads.ok THEN Err(nQuads.code)
  ELSE VerifyDataOf(v, MandatoryOf(nQuads.val[1], v.mandatoryIndexes),
                    NonMandatoryOf(nQuads.val[1], v.mandatoryIndexes))

VerifyDataParsed(document, parsed) ==
  IF ~parsed.ok THEN Err(parsed.code)
  ELSE VerifyDataCanonized(parsed.val[1],
         labelReplacementCanonicalizeJsonLd(document, parsed.val[1].labelMap))

createVerifyData(document, proofValue) ==
  VerifyDataParsed(document, parseDerivedProofValue(proofValue))

\* verify has an empty body: whatever it is given, it resolves to undefined
verify(unsecuredDocument, proofValue) == "undefined"

(***************************************************************************)
(* The pipeline: an issuer issues a base proof over a document, the holder *)
(* derives a disclosure proof from it, the verifier prepares its verify    *)
(* data and calls verify.                                                  *)
(***************************************************************************)
MaxStatements == 3
MaxBlanks == 2

Statements == 0..(MaxStatements - 1)

\* the pointer lists that select a set of statements, in ascending order
PointersOf(stmts) == LET ids == SetToSeq(stmts) IN [i \in 1..Len(ids) |-> Pointer(ids[i])]

IssueOptions ==
  [feature : Feature,
   suiteOk : BOOLEAN,
   mandatoryPointers : {PointersOf(m) : m \in SUBSET Statements},
   commitmentWithProof : {None, Some(<<12, 0, 15, 15>>)},
   signerNymEntropy : {None, Some(bytesToHex(Fill(32, 6)))}]

Keypairs ==
  {[privateKey |-> Some(Fill(32, 3)), publicKey |-> Some(Fill(96, 4))],
   [privateKey |-> None, publicKey |-> Some(Fill(96, 4))]}

DeriveOptions ==
  [feature : Feature,
   selectivePointers : {PointersOf(m) : m \in SUBSET Statements},
   presentationHeader : {None, Some(<<10, 11>>)},
   nymDomain : {None},
   lengthBBSMessages : {None, Some(MaxLengthBBS)}]

PipeInit ==
  /\ pipePhase = "start"
  /\ pipeDoc = None
  /\ pipeIssueOptions = None
  /\ pipeHashData = None
  /\ pipeProof = None
  /\ pipeDeriveOptions = None
  /\ pipeDisclosure = None
  /\ pipeDerived = None
  /\ pipeVerifyData = None
  /\ pipeVerified = None
  /\ pipeError = ""

\* transform, config, hash and serialize in a row: [hashData, proofValue]
IssueSerialized(hashData, options, keypair) ==
  [hashData |-> Some(hashData), proofValue |-> serialize(hashData, options, keypair)]

IssueTransformed(transformed, options, keypair) ==
  IF ~transformed.ok THEN [hashData |-> None, proofValue |-> Err(transformed.code)]
  ELSE IssueSerialized(hash(transformed.val[1], CanonicalProofConfig), options, keypair)

IssueProof(doc, options, rawHmacKey, keypair) ==
  IssueTransformed(transform(doc, options, rawHmacKey), options, keypair)

\* what an issue leaves behind
Issued(doc, options, keypair, issued) ==
  /\ pipeDoc' = Some(doc)
  /\ pipeIssueOptions' = Some([options |-> options, keypair |-> keypair])
  /\ pipePhase' = IF issued.proofValue.ok THEN "issued" ELSE "failed"
  /\ pipeHashData' = IF issued.proofValue.ok THEN issued.hashData ELSE None
  /\ pipeProof' = issued.proofValue.val
  /\ pipeError' = issued.proofValue.code

\* the issuer issues a base proof over a document
Issue ==
  /\ pipePhase = "start"
  /\ \E blanks \in 0..MaxBlanks, options \in IssueOptions,
        seed \in 1..MaxFill, keypair \in Keypairs :
       Issued([n |-> MaxStatements, blanks |-> blanks], options, keypair,
              IssueProof([n |-> MaxStatements, blanks |-> blanks], options,
                         Fill(32, seed), keypair))
  /\ UNCHANGED <<pipeDeriveOptions, pipeDisclosure, pipeDerived, pipeVerifyData,
                 pipeVerified>>
  /\ UNCHANGED notPipeVars

\* createDisclosureData and the serialization of its result: [data, proofValue]
DeriveSerialized(data, options) == [data |-> data, proofValue |-> derive(data, options)]

DeriveProof(document, parsed, options, proveOk) ==
  DeriveSerialized(createDisclosureData(document, parsed, options.selectivePointers,
                                        options, proveOk),
                   options)

\* what a derive leaves behind; basic.prove is free to accept or to refuse
\* inputs outside its contract, and accepts the others
Derived(options, proveOk, derived) ==
  /\ proveOk \/ derived.data.code = "BBS_ERROR"
  /\ pipeDeriveOptions' = Some(options)
  /\ pipePhase' = IF derived.proofValue.ok THEN "derived" ELSE "failed"
  /\ pipeDisclosure' = IF derived.proofValue.ok THEN derived.data.val ELSE None
  /\ pipeDerived' = derived.proofValue.val
  /\ pipeError' = derived.proofValue.code

\* the holder derives a disclosure proof from the document and its base proof
Derive ==
  /\ pipePhase = "issued"
  /\ pipeVerified = None
  /\ \E options \in DeriveOptions, proveOk \in BOOLEAN :
       Derived(options, proveOk,
               DeriveProof(pipeDoc[1], parseBaseProofValue(pipeProof[1]), options, proveOk))
  /\ UNCHANGED <<pipeDoc, pipeIssueOptions, pipeHashData, pipeProof, pipeVerifyData,
                 pipeVerified>>
  /\ UNCHANGED notPipeVars

\* what createVerifyData leaves behind
VerifyDataCreated(data) ==
  /\ pipeVerifyData' = data.val
  /\ pipeError' = data.code
  /\ pipePhase' = IF data.ok THEN "derived" ELSE "failed"

\* the verifier prepares its verify data from the reveal document and the
\* derived proof
CreateVerifyData ==
  /\ pipePhase = "derived"
  /\ pipeVerifyData = None
  /\ pipeVerified = None
  /\ VerifyDataCreated(createVerifyData(pipeDisclosure[1].revealDocument, pipeDerived[1]))
  /\ UNCHANGED <<pipeDoc, pipeIssueOptions, pipeHashData, pipeProof, pipeDeriveOptions,
                 pipeDisclosure, pipeDerived, pipeVerified>>
  /\ UNCHANGED notPipeVars

\* verify on the document and its base proof
VerifyBase ==
  /\ pipePhase = "issued"
  /\ pipeVerified = None
  /\ pipeVerified' = Some(verify(pipeDoc[1], pipeProof[1]))
  /\ UNCHANGED <<pipePhase, pipeDoc, pipeIssueOptions, pipeHashData, pipeProof,
                 pipeDeriveOptions, pipeDisclosure, pipeDerived, pipeVerifyData, pipeError>>
  /\ UNCHANGED notPipeVars

\* verify on the reveal document and its derived proof
VerifyDerived ==
  /\ pipePhase = "derived"
  /\ pipeVerified = None
  /\ pipeVerified' = Some(verify(pipeDisclosure[1].revealDocument, pipeDerived[1]))
  /\ UNCHANGED <<pipePhase, pipeDoc, pipeIssueOptions, pipeHashData, pipeProof,
                 pipeDeriveOptions, pipeDisclosure, pipeDerived, pipeVerifyData, pipeError>>
  /\ UNCHANGED notPipeVars

PipeNext ==
  \/ Issue
  \/ Derive
  \/ CreateVerifyData
  \/ VerifyBase
  \/ VerifyDerived

(***************************************************************************)
(* Key-material codec (key/core.ts).                                       *)
(*                                                                         *)
(* multi.base58btc: the multibase form of base58 (Bitcoin alphabet), a     *)
(* leading 'z', one '1' per leading zero byte, then the digits of the      *)
(* big-endian number the bytes spell.  The number is kept as a sequence    *)
(* of base-256 digits, most significant first.                             *)
(***************************************************************************)
B58Char(d) ==
  IF d < 9 THEN 49 + d
  ELSE IF d < 17 THEN 65 + (d - 9)
  ELSE IF d < 22 THEN 74 + (d - 17)
  ELSE IF d < 33 THEN 80 + (d - 22)
  ELSE IF d < 44 THEN 97 + (d - 33)
  ELSE 109 + (d - 44)

\* 58 stands for a character outside the alphabet
B58Digit(c) ==
  IF c >= 49 /\ c <= 57 THEN c - 49
  ELSE IF c >= 65 /\ c <= 72 THEN c - 65 + 9
  ELSE IF c >= 74 /\ c <= 78 THEN c - 74 + 17
  ELSE IF c >= 80 /\ c <= 90 THEN c - 80 + 22
  ELSE IF c >= 97 /\ c <= 107 THEN c - 97 + 33
  ELSE IF c >= 109 /\ c <= 122 THEN c - 109 + 44
  ELSE 58

IsZero(num) == \A i \in 1..Len(num) : num[i] = 0

\* the number of leading elements of s that equal x
LeadingCount(s, x) ==
  IF \A i \in 1..Len(s) : s[i] = x THEN Len(s)
  ELSE (CHOOSE i \in 1..Len(s) : s[i] # x /\ \A j \in 1..(i - 1) : s[j] = x) - 1

\* Three base-58 digits at a time keep the recursions shallow.
Base58Cube == 58 * 58 * 58

Front(s) == SubSeq(s, 1, Len(s) - 1)
Last(s) == s[Len(s)]

RECURSIVE DivMod(_, _, _, _)
RECURSIVE DivModRight(_, _, _, _)
\* digits lo..hi of num divided by 58^3 after a remainder rem carried in from
\* the digits before: the quotient's digits lo..hi, then the remainder
DivMod(num, lo, hi, rem) ==
  IF lo = hi
  THEN <<(rem * 256 + num[lo]) \div Base58Cube, (rem * 256 + num[lo]) % Base58Cube>>
  ELSE DivModRight(num, ((lo + hi) \div 2) + 1, hi, DivMod(num, lo, (lo + hi) \div 2, rem))

DivModRight(num, lo, hi, left) == Front(left) \o DivMod(num, lo, hi, Last(left))

\* one division: the quotient goes on, the remainder gives three digits
Base58Shift(d, digits) ==
  [num |-> Front(d),
   digits |-> <<Last(d) \div (58 * 58), (Last(d) \div 58) % 58, Last(d) % 58>> \o digits]

Base58Step(st) == Base58Shift(DivMod(st.num, 1, Len(st.num), 0), st.digits)

\* n divisions in a row
RECURSIVE Base58Steps(_, _)
Base58Steps(st, n) ==
  IF st.num = <<>> \/ n = 0 THEN st
  ELSE IF n = 1 THEN Base58Step(st)
  ELSE Base58Steps(Base58Steps(st, n \div 2), n - (n \div 2))

\* 256 < 58^2: a number of n bytes has at most n * 138 / 100 + 1 base-58
\* digits.  The digits of num, most significant first, with leading zeros.
Base58Digits(num) ==
  Base58Steps([num |-> num, digits |-> <<>>],
              ((Len(num) * 138) \div 100 + 3) \div 3).digits

Base58Chars(zeros, digits) ==
  [j \in 1..(zeros + Len(digits)) |->
     IF j <= zeros THEN B58Char(0) ELSE B58Char(digits[j - zeros])]

\* what the significant digits must not be: the digits with their leading zeros
Base58Untrimmed(digits) == digits

\* one '1' per leading zero byte, then the digits without leading zeros
Base58Significant(digits) == Drop(digits, LeadingCount(digits, 0))

Base58Encode(bytes) ==
  Base58Chars(LeadingCount(bytes, 0), Base58Significant(Base58Digits(bytes)))

RECURSIVE MulAdd(_, _, _, _)
RECURSIVE MulAddRight(_, _, _, _)
\* digits lo..hi of num * 58^3 + carry, for a number num written with its
\* least significant digit first: the product's digits lo..hi, then the carry
\* out
MulAdd(num, lo, hi, carry) ==
  IF lo = hi
  THEN <<(num[lo] * Base58Cube + carry) % 256, (num[lo] * Base58Cube + carry) \div 256>>
  ELSE MulAddRight(num, ((lo + hi) \div 2) + 1, hi, MulAdd(num, lo, (lo + hi) \div 2, carry))

MulAddRight(num, lo, hi, left) == Front(left) \o MulAdd(num, lo, hi, Last(left))

\* the number the digit groups lo..hi spell after num, the number of those
\* before them, in the width of num and least significant digit first
RECURSIVE Base58Number(_, _, _, _)
Base58Number(groups, lo, hi, num) ==
  IF num = <<>> \/ lo > hi THEN num
  ELSE IF lo = hi THEN Front(MulAdd(num, 1, Len(num), groups[lo]))
  ELSE Base58Number(groups, ((lo + hi) \div 2) + 1, hi,
                    Base58Number(groups, lo, (lo + hi) \div 2, num))

Reverse(s) == [j \in 1..Len(s) |-> s[Len(s) + 1 - j]]

\* the digits in groups of three, the first group filled up with zero digits
Base58Groups(digits) ==
  [g \in 1..((Len(digits) + 2) \div 3) |->
     LET at(j) == IF j >= 1 THEN digits[j] ELSE 0
         last == Len(digits) - 3 * (((Len(digits) + 2) \div 3) - g)
     IN  at(last - 2) * 58 * 58 + at(last - 1) * 58 + at(last)]

Base58Valid(chars) == \A j \in 1..Len(chars) : B58Digit(chars[j]) < 58

\* zeros leading zero bytes, then num without its leading zero digits
Base58Bytes(zeros, num) ==
  [j \in 1..zeros |-> 0] \o Drop(num, LeadingCount(num, 0))

\* 58 < 256: a number of n base-58 digits fits n * 733 / 1000 + 1 bytes
Base58Decode(chars) ==
  Base58Bytes(LeadingCount(chars, B58Char(0)),
              Reverse(Base58Number(
                        Base58Groups([j \in 1..Len(chars) |-> B58Digit(chars[j])]),
                        1, (Len(chars) + 2) \div 3,
                        [j \in 1..((Len(chars) * 733) \div 1000 + 1) |-> 0])))

base58btc_encode(bytes) == <<ChZ>> \o Base58Encode(bytes)

base58btc_decode(str) ==
  IF Len(str) >= 1 /\ str[1] = ChZ /\ Base58Valid(Tail(str))
  THEN Ok(Base58Decode(Tail(str)))
  ELSE Err("DECODING_ERROR")

\* multi.base64url, as the key codec uses it: the bare base64url text
base64url_encode(bytes) == Base64UrlEncode(bytes)

base64url_decode(str) ==
  IF Base64UrlValid(str) THEN Ok(Base64UrlDecode(str)) ELSE Err("DECODING_ERROR")

\* PREFIX_CONSTANT.MULTIBASE: "eb01" and "8030", as hex strings
PUBLIC_KEY_MULTIBASE == <<14, 11, 0, 1>>
PRIVATE_KEY_MULTIBASE == <<8, 0, 3, 0>>

MULTIBASE(flag) ==
  CASE flag = "public" -> Some(PUBLIC_KEY_MULTIBASE)
    [] flag = "private" -> Some(PRIVATE_KEY_MULTIBASE)
    [] OTHER -> None

\* SUITE_CONSTANT.KEY_MATERIAL_LENGTH
KEY_MATERIAL_LENGTH(flag) ==
  CASE flag = "public" -> Some(96)
    [] flag = "private" -> Some(32)
    [] OTHER -> None

JWK_TYPE == "EC"
JWK_USE == "sig"
ALGORITHM == "BLS12_381G2"

materialToMultibase(material, flag) ==
  IF MULTIBASE(flag) = None \/ KEY_MATERIAL_LENGTH(flag) = None
  THEN Err("INVALID_KEYPAIR_CONTENT")
  ELSE IF Len(material) # KEY_MATERIAL_LENGTH(flag)[1]
  THEN Err("INVALID_KEYPAIR_LENGTH")
  ELSE Ok(base58btc_encode(concatenate(hexToBytes(MULTIBASE(flag)[1]), material)))

\* the every() over the prefix: a byte the decoding lacks matches nothing
PrefixMatches(multibasePrefix, multibaseMaterial) ==
  \A index \in 1..Len(multibasePrefix) :
     index <= Len(multibaseMaterial) /\ multibaseMaterial[index] = multibasePrefix[index]

MultibaseSliced(material, materialLength) ==
  IF Len(material) # materialLength THEN Err("INVALID_KEYPAIR_LENGTH") ELSE Ok(material)

\* the length of the whole decoding checked first, the prefix after it
MultibaseDecodedLengthFirst(multibaseMaterial, flag) ==
  IF ~multibaseMaterial.ok THEN Err(multibaseMaterial.code)
  ELSE IF MULTIBASE(flag) = None \/ KEY_MATERIAL_LENGTH(flag) = None
  THEN Err("INVALID_KEYPAIR_CONTENT")
  ELSE IF Len(multibaseMaterial.val[1])
            # KEY_MATERIAL_LENGTH(flag)[1] + Len(hexToBytes(MULTIBASE(flag)[1]))
  THEN Err("INVALID_KEYPAIR_LENGTH")
  ELSE IF ~PrefixMatches(hexToBytes(MULTIBASE(flag)[1]), multibaseMaterial.val[1])
  THEN Err("DECODING_ERROR")
  ELSE Ok(Drop(multibaseMaterial.val[1], Len(hexToBytes(MULTIBASE(flag)[1]))))

MultibaseDecoded(multibaseMaterial, flag) ==
  IF ~multibaseMaterial.ok THEN Err(multibaseMaterial.code)
  ELSE IF MULTIBASE(flag) = None \/ KEY_MATERIAL_LENGTH(flag) = None
  THEN Err("INVALID_KEYPAIR_CONTENT")
  ELSE IF ~PrefixMatches(hexToBytes(MULTIBASE(flag)[1]), multibaseMaterial.val[1])
  THEN Err("DECODING_ERROR")
  ELSE MultibaseSliced(Drop(multibaseMaterial.val[1], Len(hexToBytes(MULTIBASE(flag)[1]))),
                       KEY_MATERIAL_LENGTH(flag)[1])

multibaseToMaterial(multibase, flag) == MultibaseDecoded(base58btc_decode(multibase), flag)

\* a JWKEC: x and y are texts, d is optional
JwkOf(serialized, flag) ==
  [kty |-> JWK_TYPE, use |-> JWK_USE,
   key_ops |-> IF flag = "private" THEN <<"sign">> ELSE <<"verify">>,
   alg |-> ALGORITHM, ext |-> TRUE, crv |-> ALGORITHM,
   x |-> IF flag = "public" THEN serialized ELSE <<>>,
   y |-> <<>>,
   d |-> IF flag = "public" THEN None ELSE Some(serialized)]

materialToJwk(material, flag) ==
  IF KEY_MATERIAL_LENGTH(flag) = None \/ Len(material) # KEY_MATERIAL_LENGTH(flag)[1]
  THEN Err("INVALID_KEYPAIR_LENGTH")
  ELSE Ok(JwkOf(base64url_encode(material), flag))

JwkMaterial(material, materialLength) ==
  IF ~material.ok THEN Err(material.code)
  ELSE IF Len(material.val[1]) # materialLength THEN Err("INVALID_KEYPAIR_LENGTH")
  ELSE Ok(material.val[1])

\* key_ops only has to include the expected operation
JwkFieldAnyOp(jwk, fieldValue, expectedOp, materialLength) ==
  IF ~(\E i \in 1..Len(jwk.key_ops) : jwk.key_ops[i] = expectedOp)
  THEN Err("INVALID_KEYPAIR_CONTENT")
  ELSE IF fieldValue = None \/ fieldValue[1] = <<>>
  THEN Err("INVALID_KEYPAIR_CONTENT")
  ELSE JwkMaterial(base64url_decode(fieldValue[1]), materialLength)

\* fieldValue is optional: jwk.x for a public key, jwk.d for a private one
JwkField(jwk, fieldValue, expectedOp, materialLength) ==
  IF ~(\E i \in 1..Len(jwk.key_ops) : jwk.key_ops[i] = expectedOp) \/ Len(jwk.key_ops) # 1
  THEN Err("INVALID_KEYPAIR_CONTENT")
  ELSE IF fieldValue = None \/ fieldValue[1] = <<>>
  THEN Err("INVALID_KEYPAIR_CONTENT")
  ELSE JwkMaterial(base64url_decode(fieldValue[1]), materialLength)

jwkToMaterial(jwk, flag) ==
  IF KEY_MATERIAL_LENGTH(flag) = None THEN Err("INVALID_KEYPAIR_CONTENT")
  ELSE IF jwk.kty # JWK_TYPE \/ jwk.use # JWK_USE THEN Err("INVALID_KEYPAIR_CONTENT")
  ELSE IF jwk.alg # ALGORITHM \/ jwk.crv # ALGORITHM THEN Err("INVALID_KEYPAIR_CONTENT")
  ELSE JwkField(jwk,
                IF flag = "public" THEN Some(jwk.x) ELSE jwk.d,
                IF flag = "public" THEN "verify" ELSE "sign",
                KEY_MATERIAL_LENGTH(flag)[1])

(***************************************************************************)
(* The codec machine: a key material is encoded under a flag, as a         *)
(* multibase string or as a JWK, and the encoding is decoded under a flag. *)
(***************************************************************************)
MaxStride == 2
MaxOffset == 2

Flags == {"public", "private"}

\* the lengths the codec accepts, and lengths around them
MaterialLengths == {0, 31, 32, 33, 96}

\* byte i of the material is stride * 37 * i + offset * 127 (mod 256): all zero,
\* constant, and running patterns
KeyBytes(length, stride, offset) ==
  [i \in 1..length |-> (stride * 37 * i + offset * 127) % 256]

Materials ==
  {KeyBytes(length, stride, offset) :
     length \in MaterialLengths, stride \in 0..MaxStride, offset \in 0..MaxOffset}

KeyInit ==
  /\ keyPhase = "start"
  /\ keyFlag = "public"
  /\ keyMaterial = <<>>
  /\ keyMultibase = Err("")
  /\ keyJwk = Err("")
  /\ keyDecodeFlag = "public"
  /\ keyDecoded = Err("")
  /\ keyIntact = TRUE
  /\ keyReencoded = Err("")

Encoded(material, flag, phase) ==
  /\ keyPhase' = phase
  /\ keyMaterial' = material
  /\ keyFlag' = flag

MaterialToMultibase ==
  /\ keyPhase = "start"
  /\ \E material \in Materials, flag \in Flags :
       /\ Encoded(material, flag, "multibase")
       /\ keyMultibase' = materialToMultibase(material, flag)
  /\ UNCHANGED <<keyJwk, keyDecodeFlag, keyDecoded, keyIntact, keyReencoded>>
  /\ UNCHANGED notKeyVars

MaterialToJwk ==
  /\ keyPhase = "start"
  /\ \E material \in Materials, flag \in Flags :
       /\ Encoded(material, flag, "jwk")
       /\ keyJwk' = materialToJwk(material, flag)
  /\ UNCHANGED <<keyMultibase, keyDecodeFlag, keyDecoded, keyIntact, keyReencoded>>
  /\ UNCHANGED notKeyVars

MultibaseToMaterial ==
  /\ keyPhase = "multibase"
  /\ keyMultibase.ok
  /\ \E flag \in Flags :
       /\ keyDecodeFlag' = flag
       /\ keyDecoded' = multibaseToMaterial(keyMultibase.val[1], flag)
  /\ keyPhase' = "multibaseDecoded"
  /\ UNCHANGED <<keyFlag, keyMaterial, keyMultibase, keyJwk, keyIntact, keyReencoded>>
  /\ UNCHANGED notKeyVars

JwkToMaterial ==
  /\ keyPhase = "jwk"
  /\ keyJwk.ok
  /\ \E flag \in Flags :
       /\ keyDecodeFlag' = flag
       /\ keyDecoded' = jwkToMaterial(keyJwk.val[1], flag)
  /\ keyPhase' = "jwkDecoded"
  /\ UNCHANGED <<keyFlag, keyMaterial, keyMultibase, keyJwk, keyIntact, keyReencoded>>
  /\ UNCHANGED notKeyVars

\* multibase strings a caller can hand to the decoder: the encoding of the
\* bytes with the prefix of the other flag, with a prefix cut to one byte or
\* to nothing, and with a material one byte shorter or longer
TamperedBytes(bytes) ==
  {hexToBytes(PRIVATE_KEY_MULTIBASE) \o Drop(bytes, 2),
   hexToBytes(PUBLIC_KEY_MULTIBASE) \o Drop(bytes, 2),
   <<bytes[1]>>,
   <<>>,
   Front(bytes),
   bytes \o <<7>>,
   <<bytes[1], 0>> \o Drop(bytes, 2),
   <<bytes[1], 0>> \o Drop(bytes, 3)}

TamperMultibase ==
  /\ keyPhase = "multibase"
  /\ keyMultibase.ok
  /\ keyIntact
  /\ \E bytes \in TamperedBytes(base58btc_decode(keyMultibase.val[1]).val[1]) :
       keyMultibase' = Ok(base58btc_encode(bytes))
  /\ keyIntact' = FALSE
  /\ UNCHANGED <<keyPhase, keyFlag, keyMaterial, keyJwk, keyDecodeFlag, keyDecoded, keyReencoded>>
  /\ UNCHANGED notKeyVars

\* JWKs a caller can hand to the decoder: one field of an encoder's output
\* replaced
TamperedJwks(jwk) ==
  {[jwk EXCEPT !.kty = "OKP"],
   [jwk EXCEPT !.use = "enc"],
   [jwk EXCEPT !.alg = "BLS12_381"],
   [jwk EXCEPT !.crv = "BLS12_381"],
   [jwk EXCEPT !.ext = FALSE],
   [jwk EXCEPT !.y = <<65>>],
   [jwk EXCEPT !.x = <<>>],
   [jwk EXCEPT !.x = <<65, 65, 65, 65>>],
   [jwk EXCEPT !.x = <<65, 43, 65, 65>>],
   [jwk EXCEPT !.d = None],
   [jwk EXCEPT !.d = Some(<<>>)],
   [jwk EXCEPT !.d = Some(<<65, 65, 65, 65>>)],
   [jwk EXCEPT !.d = Some(<<65, 43, 65, 65>>)]}
  \cup {[jwk EXCEPT !.key_ops = ops] :
          ops \in {<<>>, <<"sign">>, <<"verify">>, <<"sign", "verify">>,
                   <<"verify", "sign">>, <<"verify", "verify">>, <<"sign", "sign">>}}

TamperJwk ==
  /\ keyPhase = "jwk"
  /\ keyJwk.ok
  /\ keyIntact
  /\ \E jwk \in TamperedJwks(keyJwk.val[1]) \ {keyJwk.val[1]} : keyJwk' = Ok(jwk)
  /\ keyIntact' = FALSE
  /\ UNCHANGED <<keyPhase, keyFlag, keyMaterial, keyMultibase, keyDecodeFlag, keyDecoded, keyReencoded>>
  /\ UNCHANGED notKeyVars

\* the material decoded from a JWK is encoded as a JWK again
JwkAgain ==
  /\ keyPhase = "jwkDecoded"
  /\ keyDecoded.ok
  /\ keyReencoded' = materialToJwk(keyDecoded.val[1], keyDecodeFlag)
  /\ keyPhase' = "jwkReencoded"
  /\ UNCHANGED <<keyFlag, keyMaterial, keyMultibase, keyJwk, keyDecodeFlag, keyDecoded, keyIntact>>
  /\ UNCHANGED notKeyVars

KeyNext ==
  \/ MaterialToMultibase
  \/ MaterialToJwk
  \/ TamperMultibase
  \/ TamperJwk
  \/ MultibaseToMaterial
  \/ JwkToMaterial
  \/ JwkAgain

(***************************************************************************)
(* The keypair: BbsKeypair and the functions that turn it into a           *)
(* verification method and back.  A keypair is a record of optional        *)
(* fields; expires and revoked are dates, counted in seconds.  A           *)
(* verification method is a record of optional fields and its type.        *)
(***************************************************************************)
ChHash == 35

KEYPAIR_DOCUMENT_TYPE_MULTI == "Multikey"
KEYPAIR_DOCUMENT_TYPE_JWK == "JsonWebKey"

MINIMAL_SEED_LENGTH == 32

\* new BbsKeypair(id, controller, expires, revoked)
Keypair(id, controller, expires, revoked) ==
  [id |-> id, controller |-> controller, expires |-> expires, revoked |-> revoked,
   privateKey |-> None, publicKey |-> None]

\* key.createPair(material): a 32-byte secret key and a 96-byte public key
\* that depend on the seed, as hex strings
createPair(material) ==
  [secretKey |-> bytesToHex(Fill(32, Digest(hexToBytes(material)))),
   publicKey |-> bytesToHex(Fill(96, Digest(hexToBytes(material)) + 1))]

GeneratedPair(pair) ==
  Ok([secretKey |-> hexToBytes(pair.secretKey), publicKey |-> hexToBytes(pair.publicKey)])

\* a generator that wants more than the minimal seed
generateKeypairLonger(seed, random) ==
  IF Len(IF seed = None THEN random ELSE seed[1]) <= MINIMAL_SEED_LENGTH
  THEN Err("INVALID_KEYPAIR_LENGTH")
  ELSE GeneratedPair(createPair(bytesToHex(IF seed = None THEN random ELSE seed[1])))

\* random is what crypto.getRandomValues writes when no seed is given
generateKeypair(seed, random) ==
  IF Len(IF seed = None THEN random ELSE seed[1]) < MINIMAL_SEED_LENGTH
  THEN Err("INVALID_KEYPAIR_LENGTH")
  ELSE GeneratedPair(createPair(bytesToHex(IF seed = None THEN random ELSE seed[1])))

generateFingerprint(keypair) ==
  IF keypair.publicKey = None THEN Err("INVALID_KEYPAIR_CONTENT")
  ELSE materialToMultibase(keypair.publicKey[1], "public")

verifyFingerprint(keypair, fingerprint) ==
  IF ~generateFingerprint(keypair).ok THEN Err(generateFingerprint(keypair).code)
  ELSE Ok(fingerprint = generateFingerprint(keypair).val[1])

\* the result of a method that changes the keypair: the error, if any, and
\* the keypair the call leaves behind
Left(keypair, code) == [ok |-> code = "", code |-> code, keypair |-> keypair]

IdSet(keypair, fingerprint) ==
  IF ~fingerprint.ok THEN Left(keypair, fingerprint.code)
  ELSE Left([keypair EXCEPT !.id = Some(keypair.controller[1] \o <<ChHash>> \o fingerprint.val[1])],
            "")

KeysStored(keypair) ==
  IF ~Falsy(keypair.controller) /\ Falsy(keypair.id)
  THEN IdSet(keypair, generateFingerprint(keypair))
  ELSE Left(keypair, "")

Initialized(keypair, pair) ==
  IF ~pair.ok THEN Left(keypair, pair.code)
  ELSE KeysStored([keypair EXCEPT !.privateKey = Some(pair.val[1].secretKey),
                                  !.publicKey = Some(pair.val[1].publicKey)])

initialize(keypair, seed, random) == Initialized(keypair, generateKeypair(seed, random))

\* format.toW3CTimestamp(date) and new Date(text): the text of a date
toW3CTimestamp(date) == IntToString(date)
DateOf(text) == parseInt(text).n

\* the fields every verification method starts with
Document(keypair, type) ==
  [id |-> keypair.id, type |-> type, controller |-> keypair.controller,
   expires |-> IF keypair.revoked # None THEN Some(toW3CTimestamp(keypair.revoked[1])) ELSE None,
   revoked |-> IF keypair.revoked # None THEN Some(toW3CTimestamp(keypair.revoked[1])) ELSE None,
   secretKeyMultibase |-> None, publicKeyMultibase |-> None,
   secretKeyJwk |-> None, publicKeyJwk |-> None]

MultibasePublic(keypair, flag, document, public) ==
  IF keypair.publicKey # None
  THEN IF ~public.ok THEN Err(public.code)
       ELSE Ok([document EXCEPT !.publicKeyMultibase = Some(public.val[1])])
  ELSE IF flag = "public" THEN Err("INVALID_KEYPAIR_CONTENT")
  ELSE Ok(document)

\* an export that emits the secret key whenever the keypair holds one
MultibaseSecretAlways(keypair, flag, document, secret) ==
  IF flag = "private" /\ keypair.privateKey = None THEN Err("INVALID_KEYPAIR_CONTENT")
  ELSE MultibasePublic(keypair, flag,
         IF keypair.privateKey # None
         THEN [document EXCEPT !.secretKeyMultibase =
                 Some(materialToMultibase(keypair.privateKey[1], "private").val[1])]
         ELSE document,
         IF keypair.publicKey # None THEN materialToMultibase(keypair.publicKey[1], "public")
         ELSE Err(""))

MultibaseSecret(keypair, flag, document, secret) ==
  IF flag = "private" /\ keypair.privateKey = None THEN Err("INVALID_KEYPAIR_CONTENT")
  ELSE IF flag = "private" /\ ~secret.ok THEN Err(secret.code)
  ELSE MultibasePublic(keypair, flag,
         IF flag = "private" THEN [document EXCEPT !.secretKeyMultibase = Some(secret.val[1])]
         ELSE document,
         IF keypair.publicKey # None THEN materialToMultibase(keypair.publicKey[1], "public")
         ELSE Err(""))

keypairToMultibase(keypair, flag) ==
  IF Falsy(keypair.controller) \/ Falsy(keypair.id) THEN Err("INVALID_KEYPAIR_CONTENT")
  ELSE MultibaseSecret(keypair, flag, Document(keypair, KEYPAIR_DOCUMENT_TYPE_MULTI),
         IF flag = "private" /\ keypair.privateKey # None
         THEN materialToMultibase(keypair.privateKey[1], "private") ELSE Err(""))

\* the texts of the JWK's string constants
TextOf(str) ==
  CASE str = "EC" -> <<69, 67>>
    [] str = "OKP" -> <<79, 75, 80>>
    [] str = "sig" -> <<115, 105, 103>>
    [] str = "enc" -> <<101, 110, 99>>
    [] str = "BLS12_381G2" -> <<66, 76, 83, 49, 50, 95, 51, 56, 49, 71, 50>>
    [] str = "BLS12_381" -> <<66, 76, 83, 49, 50, 95, 51, 56, 49>>
    [] str = "sign" -> <<115, 105, 103, 110>>
    [] str = "verify" -> <<118, 101, 114, 105, 102, 121>>
    [] OTHER -> <<63>>

\* JSON.stringify(jwk): the members in their order, an undefined d left out
JsonStringify(jwk) ==
  Flatten(<<TextOf(jwk.kty), <<44>>, TextOf(jwk.use), <<44, 91>>,
            Flatten([i \in 1..Len(jwk.key_ops) |-> TextOf(jwk.key_ops[i]) \o <<44>>]),
            <<93, 44>>, TextOf(jwk.alg), <<44>>,
            IF jwk.ext THEN <<116>> ELSE <<102>>, <<44>>, TextOf(jwk.crv), <<44>>,
            jwk.x, <<44>>, jwk.y, <<44>>,
            IF jwk.d = None THEN <<>> ELSE jwk.d[1]>>)

getJwkThumbprint(jwk) == base64url_encode(hasher(JsonStringify(jwk)))

\* a JWK export that keeps the id of the keypair
JwkPublicKeepId(keypair, flag, document, public) ==
  IF keypair.publicKey # None
  THEN IF ~public.ok THEN Err(public.code)
       ELSE Ok([document EXCEPT !.publicKeyJwk = Some(public.val[1])])
  ELSE IF flag = "public" THEN Err("INVALID_KEYPAIR_CONTENT")
  ELSE Ok(document)

JwkPublic(keypair, flag, document, public) ==
  IF keypair.publicKey # None
  THEN IF ~public.ok THEN Err(public.code)
       ELSE Ok([document EXCEPT
                  !.publicKeyJwk = Some(public.val[1]),
                  !.id = Some(keypair.controller[1] \o <<ChHash>>
                                \o getJwkThumbprint(public.val[1]))])
  ELSE IF flag = "public" THEN Err("INVALID_KEYPAIR_CONTENT")
  ELSE Ok(document)

JwkSecret(keypair, flag, document, secret) ==
  IF flag = "private" /\ keypair.privateKey = None THEN Err("INVALID_KEYPAIR_CONTENT")
  ELSE IF flag = "private" /\ ~secret.ok THEN Err(secret.code)
  ELSE JwkPublic(keypair, flag,
         IF flag = "private" THEN [document EXCEPT !.secretKeyJwk = Some(secret.val[1])]
         ELSE document,
         IF keypair.publicKey # None THEN materialToJwk(keypair.publicKey[1], "public")
         ELSE Err(""))

keypairToJwk(keypair, flag) ==
  IF Falsy(keypair.controller) \/ Falsy(keypair.id) THEN Err("INVALID_KEYPAIR_CONTENT")
  ELSE JwkSecret(keypair, flag, Document(keypair, KEYPAIR_DOCUMENT_TYPE_JWK),
         IF flag = "private" /\ keypair.privateKey # None
         THEN materialToJwk(keypair.privateKey[1], "private") ELSE Err(""))

\* options ||= {}, options.flag ||= "public", options.type ||= "Multikey":
\* the options object after export has set the defaults
ExportDefaults(options) ==
  [flag |-> IF Falsy(options.flag) THEN Some(<<"public">>) ELSE options.flag,
   type |-> IF Falsy(options.type) THEN Some(<<KEYPAIR_DOCUMENT_TYPE_MULTI>>) ELSE options.type]

\* an export that does not compare the id with the controller
ExportedAnyId(keypair, flag, type) ==
  IF (flag = "private" /\ keypair.privateKey = None)
       \/ (flag = "public" /\ keypair.publicKey = None)
  THEN Err("KEYPAIR_EXPORT_ERROR")
  ELSE IF Falsy(keypair.id) \/ Falsy(keypair.controller)
  THEN Err("KEYPAIR_EXPORT_ERROR")
  ELSE IF type = KEYPAIR_DOCUMENT_TYPE_MULTI THEN keypairToMultibase(keypair, flag)
  ELSE IF type = KEYPAIR_DOCUMENT_TYPE_JWK THEN keypairToJwk(keypair, flag)
  ELSE Err("KEYPAIR_EXPORT_ERROR")

Exported(keypair, flag, type) ==
  IF (flag = "private" /\ keypair.privateKey = None)
       \/ (flag = "public" /\ keypair.publicKey = None)
  THEN Err("KEYPAIR_EXPORT_ERROR")
  ELSE IF Falsy(keypair.id) \/ Falsy(keypair.controller)
            \/ ~StartsWith(keypair.id[1], keypair.controller[1])
  THEN Err("KEYPAIR_EXPORT_ERROR")
  ELSE IF type = KEYPAIR_DOCUMENT_TYPE_MULTI THEN keypairToMultibase(keypair, flag)
  ELSE IF type = KEYPAIR_DOCUMENT_TYPE_JWK THEN keypairToJwk(keypair, flag)
  ELSE Err("KEYPAIR_EXPORT_ERROR")

\* BbsKeypair.export(options); an option is absent or a one-element tuple
export(keypair, options) ==
  Exported(keypair, ExportDefaults(options).flag[1][1], ExportDefaults(options).type[1][1])

\* an import that forgets the secret key
KeysImportedPublicOnly(keypair, hasSecret, secret, hasPublic, public) ==
  IF hasSecret /\ ~secret.ok THEN Err(secret.code)
  ELSE IF hasPublic /\ ~public.ok THEN Err(public.code)
  ELSE IF ~hasSecret /\ ~hasPublic THEN Err("INVALID_KEYPAIR_CONTENT")
  ELSE Ok([keypair EXCEPT !.publicKey = IF hasPublic THEN Some(public.val[1]) ELSE None])

\* the keys decoded from the fields that are there
KeysImported(keypair, hasSecret, secret, hasPublic, public) ==
  IF hasSecret /\ ~secret.ok THEN Err(secret.code)
  ELSE IF hasPublic /\ ~public.ok THEN Err(public.code)
  ELSE IF ~hasSecret /\ ~hasPublic THEN Err("INVALID_KEYPAIR_CONTENT")
  ELSE Ok([keypair EXCEPT
             !.privateKey = IF hasSecret THEN Some(secret.val[1]) ELSE None,
             !.publicKey = IF hasPublic THEN Some(public.val[1]) ELSE None])

multibaseToKeypair(verificationMethod, expires, revoked) ==
  KeysImported(Keypair(verificationMethod.id, verificationMethod.controller, expires, revoked),
    ~Falsy(verificationMethod.secretKeyMultibase),
    IF ~Falsy(verificationMethod.secretKeyMultibase)
    THEN multibaseToMaterial(verificationMethod.secretKeyMultibase[1], "private") ELSE Err(""),
    ~Falsy(verificationMethod.publicKeyMultibase),
    IF ~Falsy(verificationMethod.publicKeyMultibase)
    THEN multibaseToMaterial(verificationMethod.publicKeyMultibase[1], "public") ELSE Err(""))

jwkToKeypair(verificationMethod, expires, revoked) ==
  KeysImported(Keypair(verificationMethod.id, verificationMethod.controller, expires, revoked),
    verificationMethod.secretKeyJwk # None,
    IF verificationMethod.secretKeyJwk # None
    THEN jwkToMaterial(verificationMethod.secretKeyJwk[1], "private") ELSE Err(""),
    verificationMethod.publicKeyJwk # None,
    IF verificationMethod.publicKeyJwk # None
    THEN jwkToMaterial(verificationMethod.publicKeyJwk[1], "public") ELSE Err(""))

\* an import that takes every type but JsonWebKey for Multikey
DispatchedByDefault(inputDocument, expires, revoked) ==
  IF inputDocument.type = KEYPAIR_DOCUMENT_TYPE_JWK
  THEN jwkToKeypair(inputDocument, expires, revoked)
  ELSE multibaseToKeypair(inputDocument, expires, revoked)

Dispatched(inputDocument, expires, revoked) ==
  IF inputDocument.type = KEYPAIR_DOCUMENT_TYPE_MULTI
  THEN multibaseToKeypair(inputDocument, expires, revoked)
  ELSE IF inputDocument.type = KEYPAIR_DOCUMENT_TYPE_JWK
  THEN jwkToKeypair(inputDocument, expires, revoked)
  ELSE Err("KEYPAIR_IMPORT_ERROR")

\* an import that checks the dates whatever the options say
DatesCheckedAlways(inputDocument, options, now, expires, revoked) ==
  IF expires # None /\ expires[1] < now
  THEN Err("KEYPAIR_EXPIRED_ERROR")
  ELSE IF revoked # None /\ revoked[1] < now
  THEN Err("KEYPAIR_EXPIRED_ERROR")
  ELSE Dispatched(inputDocument, expires, revoked)

DatesChecked(inputDocument, options, now, expires, revoked) ==
  IF options.checkExpired = Some(TRUE) /\ expires # None /\ expires[1] < now
  THEN Err("KEYPAIR_EXPIRED_ERROR")
  ELSE IF options.checkRevoked = Some(TRUE) /\ revoked # None /\ revoked[1] < now
  THEN Err("KEYPAIR_EXPIRED_ERROR")
  ELSE Dispatched(inputDocument, expires, revoked)

\* BbsKeypair.import(inputDocument, options); validated is what
\* document.validateContext finds, now is the time of the call
import(inputDocument, options, validated, now) ==
  IF options.checkContext = Some(TRUE) /\ ~validated THEN Err("INVALID_KEYPAIR_CONTENT")
  ELSE DatesChecked(inputDocument, options, now,
         IF Falsy(inputDocument.expires) THEN None ELSE Some(DateOf(inputDocument.expires[1])),
         IF Falsy(inputDocument.revoked) THEN None ELSE Some(DateOf(inputDocument.revoked[1])))

(***************************************************************************)
(* The keypair machine: a keypair is constructed, initialized up to        *)
(* MaxInits times and exported; the verification method is imported as it  *)
(* is or after somebody changed it; an imported keypair can be adopted and *)
(* exported again.  kpInit, kpExport and kpImport record the last call of  *)
(* each method; the record of initialize is kept until the export.         *)
(***************************************************************************)
MaxInits == 2
MaxSeed == 1
MaxTime == 2

TextD == <<100>>
TextDK == <<100, 107>>
TextDHashK == <<100, ChHash, 107>>
TextXHashK == <<120, ChHash, 107>>

NoKeypair == Keypair(None, None, None, None)
NoExportOptions == [flag |-> None, type |-> None]
NoImportOptions == [checkContext |-> None, checkExpired |-> None, checkRevoked |-> None]

\* the arguments of the constructor
Constructions ==
  {Keypair(id, Some(TextD), None, None) :
     id \in {None, Some(<<>>), Some(TextDHashK), Some(TextDK), Some(TextXHashK)}}
  \cup {Keypair(id, None, None, None) : id \in {None, Some(TextDHashK)}}
  \cup {Keypair(Some(TextDHashK), Some(<<>>), None, None)}
  \cup {Keypair(Some(TextDHashK), Some(TextD), expires, revoked) :
          expires \in {None, Some(1)}, revoked \in {None, Some(MaxTime)}}

\* the seeds handed to initialize; without a seed the bytes are random
Seeds ==
  {None, Some(Fill(MINIMAL_SEED_LENGTH - 1, 1)), Some(Fill(MINIMAL_SEED_LENGTH, 1)),
   Some(Fill(MINIMAL_SEED_LENGTH + 1, 1))}

ExportOptions ==
  [flag : {Some(<<"public">>), Some(<<"private">>)},
   type : {Some(<<KEYPAIR_DOCUMENT_TYPE_MULTI>>), Some(<<KEYPAIR_DOCUMENT_TYPE_JWK>>)}]
  \cup {[flag |-> None, type |-> None],
        [flag |-> None, type |-> Some(<<KEYPAIR_DOCUMENT_TYPE_JWK>>)],
        [flag |-> Some(<<"private">>), type |-> Some(<<"Other">>)]}

\* the options of an import and what it finds: whether the context
\* validates and what time it is
Imports ==
  {[options |-> NoImportOptions, validated |-> TRUE, now |-> n] : n \in {0, MaxTime + 1}}
  \cup {[options |-> [NoImportOptions EXCEPT !.checkContext = Some(TRUE)],
         validated |-> v, now |-> 0] : v \in BOOLEAN}
  \cup {[options |-> [NoImportOptions EXCEPT !.checkExpired = Some(TRUE)],
         validated |-> TRUE, now |-> n] : n \in 0..(MaxTime + 1)}
  \cup {[options |-> [NoImportOptions EXCEPT !.checkRevoked = Some(TRUE)],
         validated |-> TRUE, now |-> n] : n \in 0..(MaxTime + 1)}
  \cup {[options |-> [checkContext |-> Some(FALSE), checkExpired |-> Some(FALSE),
                      checkRevoked |-> Some(FALSE)],
         validated |-> FALSE, now |-> MaxTime + 1]}

\* what a verification method can look like after somebody changed it
TamperedDocuments(doc) ==
  {[doc EXCEPT !.type = "Other"],
   [doc EXCEPT !.type = IF doc.type = KEYPAIR_DOCUMENT_TYPE_MULTI
                        THEN KEYPAIR_DOCUMENT_TYPE_JWK ELSE KEYPAIR_DOCUMENT_TYPE_MULTI],
   [doc EXCEPT !.publicKeyMultibase = None, !.publicKeyJwk = None],
   [doc EXCEPT !.secretKeyMultibase = None, !.secretKeyJwk = None],
   [doc EXCEPT !.publicKeyMultibase = None, !.publicKeyJwk = None,
               !.secretKeyMultibase = None, !.secretKeyJwk = None],
   [doc EXCEPT !.publicKeyMultibase = IF @ = None THEN None ELSE Some(<<>>),
               !.secretKeyMultibase = None],
   [doc EXCEPT !.publicKeyMultibase = doc.secretKeyMultibase,
               !.publicKeyJwk = doc.secretKeyJwk],
   [doc EXCEPT !.id = Some(TextXHashK)],
   [doc EXCEPT !.controller = None]} \ {doc}

KpInit ==
  /\ kpPhase = "none"
  /\ kpNew = NoKeypair
  /\ kp = NoKeypair
  /\ kpRound = 0
  /\ kpInits = 0
  /\ kpInit = [seed |-> None, random |-> <<>>, before |-> NoKeypair, code |-> ""]
  /\ kpExport = [options |-> NoExportOptions, after |-> NoExportOptions,
                 before |-> NoKeypair, result |-> Err("")]
  /\ kpDoc = None
  /\ kpDocIntact = TRUE
  /\ kpImport = [options |-> NoImportOptions, validated |-> TRUE, now |-> 0,
                 result |-> Err("")]

KpConstruct ==
  /\ kpPhase = "none"
  /\ \E keypair \in Constructions :
       /\ kpNew' = keypair
       /\ kp' = keypair
  /\ kpPhase' = "constructed"
  /\ UNCHANGED <<kpRound, kpInits, kpInit, kpExport, kpDoc, kpDocIntact, kpImport>>
  /\ UNCHANGED notKpVars

KpInitializeWith(seed, random) ==
  LET left == initialize(kp, seed, random)
  IN /\ kp' = left.keypair
     /\ kpInit' = [seed |-> seed, random |-> random, before |-> kp, code |-> left.code]

KpInitialize ==
  /\ kpPhase = "constructed"
  /\ kpRound = 0
  /\ kpInits < MaxInits
  /\ \E seed \in Seeds :
       IF seed = None
       THEN \E r \in 1..MaxSeed : KpInitializeWith(seed, Fill(MINIMAL_SEED_LENGTH, r + 1))
       ELSE KpInitializeWith(seed, <<>>)
  /\ kpInits' = kpInits + 1
  /\ UNCHANGED <<kpPhase, kpNew, kpRound, kpExport, kpDoc, kpDocIntact, kpImport>>
  /\ UNCHANGED notKpVars

KpExport ==
  /\ kpPhase = "constructed"
  /\ \E options \in ExportOptions :
       LET result == export(kp, options)
       IN /\ kpExport' = [options |-> options, after |-> ExportDefaults(options),
                          before |-> kp, result |-> result]
          /\ kpDoc' = IF result.ok THEN result.val ELSE None
  /\ kpPhase' = "exported"
  /\ kpDocIntact' = TRUE
  /\ kpInits' = 0
  /\ kpInit' = [seed |-> None, random |-> <<>>, before |-> NoKeypair, code |-> ""]
  /\ UNCHANGED <<kpNew, kp, kpRound, kpImport>>
  /\ UNCHANGED notKpVars

KpTamper ==
  /\ kpPhase = "exported"
  /\ kpRound = 0
  /\ kpDoc # None
  /\ kpDocIntact
  /\ \E doc \in TamperedDocuments(kpDoc[1]) : kpDoc' = Some(doc)
  /\ kpDocIntact' = FALSE
  /\ UNCHANGED <<kpPhase, kpNew, kp, kpRound, kpInits, kpInit, kpExport, kpImport>>
  /\ UNCHANGED notKpVars

KpImport ==
  /\ kpPhase = "exported"
  /\ kpRound = 0
  /\ kpDoc # None
  /\ \E call \in Imports :
       /\ kpDocIntact \/ call.options = NoImportOptions
       /\ kpImport' = [options |-> call.options, validated |-> call.validated,
                       now |-> call.now,
                       result |-> import(kpDoc[1], call.options, call.validated, call.now)]
  /\ kpPhase' = "imported"
  /\ UNCHANGED <<kpNew, kp, kpRound, kpInits, kpInit, kpExport, kpDoc, kpDocIntact>>
  /\ UNCHANGED notKpVars

\* the imported keypair is the one exported next
KpAdopt ==
  /\ kpPhase = "imported"
  /\ kpRound = 0
  /\ kpImport.result.ok
  /\ kpImport.options = NoImportOptions
  /\ kp' = kpImport.result.val[1]
  /\ kpNew' = kpImport.result.val[1]
  /\ kpRound' = 1
  /\ kpPhase' = "constructed"
  /\ kpInits' = 0
  /\ kpInit' = [seed |-> None, random |-> <<>>, before |-> NoKeypair, code |-> ""]
  /\ kpExport' = [options |-> NoExportOptions, after |-> NoExportOptions,
                  before |-> NoKeypair, result |-> Err("")]
  /\ kpDoc' = None
  /\ kpDocIntact' = TRUE
  /\ kpImport' = [options |-> NoImportOptions, validated |-> TRUE, now |-> 0,
                  result |-> Err("")]
  /\ UNCHANGED notKpVars

KpNext ==
  \/ KpConstruct
  \/ KpInitialize
  \/ KpExport
  \/ KpTamper
  \/ KpImport
  \/ KpAdopt

(***************************************************************************)
(* The label-map machine: a label map of up to MaxEntries entries is       *)
(* compressed and, when that succeeds, decompressed.                       *)
(***************************************************************************)
MaxEntries == 2

\* c14n0, c14n2, c14n02, c14n1x, c14n, d14n0
LabelKeys ==
  {BLANK_LABEL \o <<48>>, BLANK_LABEL \o <<50>>, BLANK_LABEL \o <<48, 50>>,
   BLANK_LABEL \o <<49, 120>>, BLANK_LABEL, <<100, 49, 52, 110, 48>>}

\* b3, b0, b, a3
LabelValues ==
  {COMPRESSED_VALUE \o <<51>>, COMPRESSED_VALUE \o <<48>>, COMPRESSED_VALUE, <<97, 51>>}

\* the label maps of exactly n entries, their keys pairwise different
LabelMapsOf(n) ==
  {m \in [1..n -> LabelKeys \X LabelValues] :
     \A i, j \in 1..n : i # j => m[i][1] # m[j][1]}

LblInit ==
  /\ lblPhase = "start"
  /\ lblMap = <<>>
  /\ lblCompressed = Err("")
  /\ lblDecompressed = <<>>

LblGive ==
  /\ lblPhase = "start"
  /\ \E n \in 0..MaxEntries : \E m \in LabelMapsOf(n) : lblMap' = m
  /\ lblPhase' = "given"
  /\ UNCHANGED <<lblCompressed, lblDecompressed>>
  /\ UNCHANGED notLblVars

LblCompress ==
  /\ lblPhase = "given"
  /\ lblCompressed' = compressLabelMap(lblMap)
  /\ lblPhase' = "compressed"
  /\ UNCHANGED <<lblMap, lblDecompressed>>
  /\ UNCHANGED notLblVars

LblDecompress ==
  /\ lblPhase = "compressed"
  /\ lblCompressed.ok
  /\ lblDecompressed' = decompressLabelMap(lblCompressed.val[1])
  /\ lblPhase' = "decompressed"
  /\ UNCHANGED <<lblMap, lblCompressed>>
  /\ UNCHANGED notLblVars

LblNext ==
  \/ LblGive
  \/ LblCompress
  \/ LblDecompress

(***************************************************************************)
(* Specifications                                                          *)
(***************************************************************************)
Init == EnvInit /\ PipeInit /\ KeyInit /\ KpInit /\ LblInit

Spec == Init /\ [][PipeNext]_vars

SpecEnvelope == Init /\ [][EnvNext]_vars

SpecCodec == Init /\ [][KeyNext]_vars

SpecKeypair == Init /\ [][KpNext]_vars

SpecLabel == Init /\ [][LblNext]_vars

(***************************************************************************)
(* Properties of the pipeline (specification Spec)                         *)
(***************************************************************************)
\* the positions (from 0) within the list enclosing of the keys found in keys
PositionsIn(keys, enclosing) ==
  LET at == SetToSeq({p \in 1..Len(enclosing) : Includes(keys, enclosing[p])})
  IN  [j \in 1..Len(at) |-> at[j] - 1]

StrictlyAscending(indexes) ==
  \A i \in 1..(Len(indexes) - 1) : indexes[i] < indexes[i + 1]

\* C1: after a derive, mandatoryIndexes is the positions, within the ordered
\* keys of groups.combined.matching, of the keys of groups.mandatory.matching,
\* and selectiveIndexes is the positions, within the ordered keys of
\* groups.mandatory.nonMatching, of the keys of groups.selective.matching.
C1_IndexesArePositions ==
  pipePhase = "derived" =>
    /\ pipeDisclosure[1].mandatoryIndexes =
         PositionsIn(MapKeys(pipeDisclosure[1].mandatoryMatch),
                     MapKeys(pipeDisclosure[1].combinedMatch))
    /\ pipeDisclosure[1].selectiveIndexes =
         PositionsIn(MapKeys(pipeDisclosure[1].selectiveMatch),
                     MapKeys(pipeDisclosure[1].mandatoryNonMatch))

\* C2: after a derive, both index arrays are strictly ascending, every element
\* of mandatoryIndexes is below the number of combined statements and every
\* element of selectiveIndexes is below the number of non-mandatory statements.
C2_IndexesInRange ==
  pipePhase = "derived" =>
    /\ StrictlyAscending(pipeDisclosure[1].mandatoryIndexes)
    /\ StrictlyAscending(pipeDisclosure[1].selectiveIndexes)
    /\ \A i \in 1..Len(pipeDisclosure[1].mandatoryIndexes) :
         pipeDisclosure[1].mandatoryIndexes[i] < Len(pipeDisclosure[1].combinedMatch)
    /\ \A i \in 1..Len(pipeDisclosure[1].selectiveIndexes) :
         pipeDisclosure[1].selectiveIndexes[i] < Len(pipeDisclosure[1].mandatoryNonMatch)

\* C3: the partition createVerifyData makes of the revealed N-Quads gives back
\* the issuer's mandatory list, and its j-th non-mandatory N-Quad is the
\* issuer's message number selectiveIndexes[j].
C3_VerifierPartition ==
  (pipePhase = "derived" /\ pipeVerifyData # None) =>
    /\ pipeVerifyData[1].mandatory = MapValues(pipeHashData[1].mandatory)
    /\ Len(pipeVerifyData[1].nonMandatory) = Len(pipeVerifyData[1].selectiveIndexes)
    /\ \A j \in 1..Len(pipeVerifyData[1].nonMandatory) :
         /\ j <= Len(pipeVerifyData[1].selectiveIndexes)
         /\ pipeVerifyData[1].selectiveIndexes[j] < Len(pipeHashData[1].nonMandatory)
         /\ pipeVerifyData[1].nonMandatory[j] =
              MapValues(pipeHashData[1].nonMandatory)[pipeVerifyData[1].selectiveIndexes[j] + 1]

\* C4: verify accepts the base proof the issuer made of a document and the
\* derived proof the holder made of it: it returns true.
C4_VerifyAccepts ==
  pipeVerified # None => pipeVerified[1] = "true"

(***************************************************************************)
(* Properties of the envelope                                              *)
(***************************************************************************)
PVE == "PROOF_VERIFICATION_ERROR"

\* the wire string is the untouched output of the serializer of that kind
IntactFrom(kind) == envKind = kind /\ envPhase \in {"wire", "parsed"} /\ envIntact

\* C5: for every valid BaseProofValue v the serializer succeeds and
\* parseBaseProofValue(serializeBaseProofValue(v)) equals v field for field,
\* feature included.
C5_BaseRoundTrip ==
  /\ (envKind = "base" /\ ValidBase(envValue[1])) => envSer.ok
  /\ (IntactFrom("base") /\ envPhase = "parsed" /\ envParser = "base"
        /\ ValidBase(envValue[1]))
       => (envParsed.ok /\ envParsed.val[1] = envValue[1])

C5_Witness ==
  /\ IntactFrom("base") /\ envPhase = "parsed" /\ envParser = "base"
  /\ ValidBase(envValue[1])
  /\ envValue[1].feature = HOLDER_BINDING_PSEUDONYM
  /\ envValue[1].mandatoryPointers # <<>>
  /\ envParsed.ok

\* the fields of a DerivedProofValue, compared one by one
SameDerived(a, b) ==
  /\ a.bbsProof = b.bbsProof
  /\ a.labelMap = b.labelMap
  /\ a.mandatoryIndexes = b.mandatoryIndexes
  /\ a.selectiveIndexes = b.selectiveIndexes
  /\ a.presentationHeader = b.presentationHeader
  /\ a.feature = b.feature
  /\ a.nymDomain = b.nymDomain
  /\ a.pseudonym = b.pseudonym
  /\ a.lengthBBSMessages = b.lengthBBSMessages

\* C6: for every valid DerivedProofValue v the serializer succeeds and
\* parseDerivedProofValue(serializeDerivedProofValue(v)) equals v, the
\* decompressed label map included.
C6_DerivedRoundTrip ==
  /\ (envKind = "derived" /\ ValidDerived(envValue[1])) => envSer.ok
  /\ (IntactFrom("derived") /\ envPhase = "parsed" /\ envParser = "derived"
        /\ ValidDerived(envValue[1]))
       => (envParsed.ok /\ SameDerived(envParsed.val[1], envValue[1]))

\* the header table of section 4.8: third header byte of a kind and feature
HeaderByte(kind, f) ==
  (CASE f = BASELINE -> 2
     [] f = ANONYMOUS_HOLDER_BINDING -> 4
     [] f = PSEUDONYM -> 6
     [] f = HOLDER_BINDING_PSEUDONYM -> 8) + (IF kind = "base" THEN 0 ELSE 1)

\* the number of components of section 4.8
ComponentCount(kind, f) ==
  IF kind = "base" THEN (IF IsNymFeature(f) THEN 6 ELSE 5)
  ELSE IF f = BASELINE THEN 5
  ELSE IF f = ANONYMOUS_HOLDER_BINDING THEN 6 ELSE 8

\* the components of a serialized value, read back from the wire
WireComponents == cbor_decode(Drop(WireBytes, 3))

BasePositions(c, v) ==
  /\ c[1] = CBytes(v.bbsSignature)
  /\ c[2] = CBytes(v.bbsHeader)
  /\ c[3] = CBytes(v.publicKey)
  /\ c[4] = CBytes(v.hmacKey)
  /\ c[5].k = "array" /\ Len(c[5].s) = Len(v.mandatoryPointers)
  /\ IsNymFeature(v.feature) => c[6] = CBytes(v.signerNymEntropy[1])

DerivedPositions(c, v) ==
  /\ c[1] = CBytes(v.bbsProof)
  /\ c[2].k = "map" /\ Len(c[2].s) = Len(v.labelMap)
  /\ c[3].k = "array" /\ [i \in 1..Len(c[3].s) |-> c[3].s[i].n] = v.mandatoryIndexes
  /\ c[4].k = "array" /\ [i \in 1..Len(c[4].s) |-> c[4].s[i].n] = v.selectiveIndexes
  /\ c[5] = CBytes(v.presentationHeader)
  /\ v.feature = ANONYMOUS_HOLDER_BINDING => c[6] = CUint(v.lengthBBSMessages[1])
  /\ IsNymFeature(v.feature) =>
       /\ c[6] = CBytes(v.nymDomain[1])
       /\ c[7] = CBytes(v.pseudonym[1])
       /\ c[8] = CUint(v.lengthBBSMessages[1])

\* C7: a serialized proof value, under its 'u' prefix, starts with D9 5D and
\* the header byte of its kind and feature, followed by the positional
\* component array of the length its kind and feature require; the parser
\* of that kind maps the third byte back to the same feature.
C7_HeaderAndComponents ==
  (envKind # "none" /\ envPhase \in {"wire", "parsed"} /\ envIntact) =>
    LET v == envValue[1] IN
    /\ envWire[1] = ChU
    /\ SubSeq(WireBytes, 1, 3) = <<217, 93, HeaderByte(envKind, v.feature)>>
    /\ WireComponents.ok
    /\ WireComponents.val[1].k = "array"
    /\ Len(WireComponents.val[1].s) = ComponentCount(envKind, v.feature)
    /\ envKind = "base" => BasePositions(WireComponents.val[1].s, v)
    /\ envKind = "derived" => DerivedPositions(WireComponents.val[1].s, v)
    /\ envKind = "base" => BaseFeatureMap(WireBytes[3]) = Some(v.feature)
    /\ envKind = "derived" => DerivedFeatureMap(WireBytes[3]) = Some(v.feature)

C7_Witness ==
  /\ IntactFrom("derived")
  /\ envValue[1].feature = PSEUDONYM
  /\ envValue[1].labelMap # <<>>
  /\ Len(WireComponents.val[1].s) = 8

\* an input a parser with the given allowlist must refuse
Malformed(allow) ==
  \/ envWire = <<>>
  \/ envWire[1] # ChU
  \/ Len(WireBytes) < 3
  \/ WireBytes[1] # 217
  \/ WireBytes[2] # 93
  \/ WireBytes[3] \notin allow

\* C8: each parser fails with PROOF_VERIFICATION_ERROR on an input without
\* the 'u' prefix, with fewer than 3 bytes, without the D9 5D tag or with a
\* third byte outside its allowlist; neither parser accepts the output of
\* the other kind's serializer; every failure carries that code.
C8_ParseErrors ==
  envPhase = "parsed" =>
    /\ (envParser = "base" /\ Malformed({2, 4, 6, 8}))
         => (~envParsed.ok /\ envParsed.code = PVE)
    /\ (envParser = "derived" /\ Malformed({3, 5, 7, 9}))
         => (~envParsed.ok /\ envParsed.code = PVE)
    /\ (envIntact /\ envKind # envParser) => ~envParsed.ok
    /\ ~envParsed.ok => envParsed.code = PVE

C8_Witness ==
  /\ envPhase = "parsed" /\ envParser = "base" /\ envKind = "base"
  /\ ~envIntact
  /\ Len(WireBytes) >= 3 /\ envWire[1] = ChU
  /\ WireBytes[3] = 10
  /\ ~envParsed.ok /\ envParsed.code = PVE

\* C9: a value returned by parseBaseProofValue has signerNymEntropy iff its
\* feature is a pseudonym feature; a value returned by parseDerivedProofValue
\* has lengthBBSMessages iff its feature is not BASELINE, and nymDomain and
\* pseudonym iff its feature is a pseudonym feature.
C9_ParsedInvariants ==
  (envPhase = "parsed" /\ envParsed.ok) =>
    LET v == envParsed.val[1] IN
    /\ envParser = "base" => ((v.signerNymEntropy # None) <=> IsNymFeature(v.feature))
    /\ envParser = "derived" =>
         /\ (v.lengthBBSMessages # None) <=> (v.feature # BASELINE)
         /\ (v.nymDomain # None) <=> IsNymFeature(v.feature)
         /\ (v.pseudonym # None) <=> IsNymFeature(v.feature)

(***************************************************************************)
(* Key codec properties                                                    *)
(***************************************************************************)
ValidMaterial(material, flag) ==
  \/ flag = "private" /\ Len(material) = 32
  \/ flag = "public" /\ Len(material) = 96

\* C10: for a key material of 32 bytes under the private flag, or of 96
\* bytes under the public flag, materialToMultibase and materialToJwk do not
\* fail, and decoding what they return under the same flag does not fail and
\* gives the material back.
C10_CodecRoundTrip ==
  ValidMaterial(keyMaterial, keyFlag) =>
    /\ (keyPhase = "multibase" /\ keyIntact) => keyMultibase.ok
    /\ (keyPhase = "jwk" /\ keyIntact) => keyJwk.ok
    /\ (keyPhase \in {"multibaseDecoded", "jwkDecoded"} /\ keyIntact /\ keyDecodeFlag = keyFlag) =>
         keyDecoded = Ok(keyMaterial)

C10_Witness ==
  /\ keyPhase = "multibaseDecoded"
  /\ keyIntact
  /\ keyFlag = "public"
  /\ keyDecodeFlag = "public"
  /\ Len(keyMaterial) = 96
  /\ ~IsZero(keyMaterial)
  /\ keyDecoded = Ok(keyMaterial)


\* C11 as stated: for every JWK j that jwkToMaterial accepts under a flag,
\* materialToJwk of the decoded material under that flag is j, field for field.
C11_AcceptedJwkRoundTrip ==
  keyPhase = "jwkReencoded" => keyReencoded = Ok(keyJwk.val[1])

\* C11 amended: for every JWK j that materialToJwk returned (the fixed
\* template) and that jwkToMaterial accepts under a flag, materialToJwk of the
\* decoded material under that flag is j, field for field.
C11_TemplateJwkRoundTrip ==
  (keyPhase = "jwkReencoded" /\ keyIntact) => keyReencoded = Ok(keyJwk.val[1])

C11_Witness ==
  /\ keyPhase = "jwkReencoded"
  /\ keyIntact
  /\ keyDecodeFlag = "private"
  /\ ~IsZero(keyMaterial)
  /\ keyReencoded = Ok(keyJwk.val[1])
  /\ keyReencoded.val[1].d # None

\* the bytes the multibase string decodes to
MultibaseBytes == base58btc_decode(keyMultibase.val[1]).val[1]

\* the two bytes of a flag's prefix
PrefixOf(flag) == IF flag = "public" THEN <<235, 1>> ELSE <<128, 48>>

BeginsWith(bytes, prefix) ==
  Len(bytes) >= Len(prefix) /\ SubSeq(bytes, 1, Len(prefix)) = prefix

\* C13: multibaseToMaterial fails with DECODING_ERROR when the decoded bytes
\* do not begin with the flag's prefix (EB 01 public, 80 30 private), whatever
\* their length; with INVALID_KEYPAIR_LENGTH when they do and the remainder
\* is not 96 (public) or 32 (private) bytes long; and succeeds otherwise.
C13_MultibaseErrors ==
  keyPhase = "multibaseDecoded" =>
    /\ ~BeginsWith(MultibaseBytes, PrefixOf(keyDecodeFlag))
         => keyDecoded = Err("DECODING_ERROR")
    /\ (BeginsWith(MultibaseBytes, PrefixOf(keyDecodeFlag))
          /\ Len(MultibaseBytes) - 2 # (IF keyDecodeFlag = "public" THEN 96 ELSE 32))
         => keyDecoded = Err("INVALID_KEYPAIR_LENGTH")
    /\ (BeginsWith(MultibaseBytes, PrefixOf(keyDecodeFlag))
          /\ Len(MultibaseBytes) - 2 = (IF keyDecodeFlag = "public" THEN 96 ELSE 32))
         => keyDecoded = Ok(Drop(MultibaseBytes, 2))

\* a public key whose prefix was changed to 80 30, decoded as a public key
C13_Witness ==
  /\ keyPhase = "multibaseDecoded"
  /\ ~keyIntact
  /\ keyFlag = "public"
  /\ keyDecodeFlag = "public"
  /\ Len(MultibaseBytes) = 98
  /\ BeginsWith(MultibaseBytes, <<128, 48>>)
  /\ keyDecoded = Err("DECODING_ERROR")

\* the field of the JWK that carries the material of a flag, "" when absent
RequiredField(jwk, flag) ==
  IF flag = "public" THEN jwk.x ELSE IF jwk.d = None THEN <<>> ELSE jwk.d[1]

\* kty, use, alg, crv or key_ops are not the suite's, or the field is missing
ContentMismatch(jwk, flag) ==
  \/ jwk.kty # "EC" \/ jwk.use # "sig"
  \/ jwk.alg # "BLS12_381G2" \/ jwk.crv # "BLS12_381G2"
  \/ jwk.key_ops # (IF flag = "public" THEN <<"verify">> ELSE <<"sign">>)
  \/ RequiredField(jwk, flag) = <<>>

\* the required field is base64url text of a material of another length
LengthMismatch(jwk, flag) ==
  /\ ~ContentMismatch(jwk, flag)
  /\ base64url_decode(RequiredField(jwk, flag)).ok
  /\ Len(base64url_decode(RequiredField(jwk, flag)).val[1])
       # (IF flag = "public" THEN 96 ELSE 32)

\* C14 as stated: jwkToMaterial fails with INVALID_KEYPAIR_CONTENT on a
\* mismatch of kty, use, alg, crv or key_ops, on a missing or empty required
\* field and on a decoded field of another length than expected, and returns
\* a material only when none of these holds.
C14_JwkErrorsAllContent ==
  keyPhase \in {"jwkDecoded", "jwkReencoded"} =>
    /\ (ContentMismatch(keyJwk.val[1], keyDecodeFlag)
          \/ LengthMismatch(keyJwk.val[1], keyDecodeFlag))
         => keyDecoded = Err("INVALID_KEYPAIR_CONTENT")
    /\ keyDecoded.ok => (~ContentMismatch(keyJwk.val[1], keyDecodeFlag)
                          /\ ~LengthMismatch(keyJwk.val[1], keyDecodeFlag))

\* C14 amended: the failure on a decoded field of another length than
\* expected carries INVALID_KEYPAIR_LENGTH; the other mismatches carry
\* INVALID_KEYPAIR_CONTENT, and a material is returned only when none holds.
C14_JwkErrors ==
  keyPhase \in {"jwkDecoded", "jwkReencoded"} =>
    /\ ContentMismatch(keyJwk.val[1], keyDecodeFlag)
         => keyDecoded = Err("INVALID_KEYPAIR_CONTENT")
    /\ LengthMismatch(keyJwk.val[1], keyDecodeFlag)
         => keyDecoded = Err("INVALID_KEYPAIR_LENGTH")
    /\ keyDecoded.ok => (~ContentMismatch(keyJwk.val[1], keyDecodeFlag)
                          /\ ~LengthMismatch(keyJwk.val[1], keyDecodeFlag))

\* a public JWK with key_ops ["sign", "verify"]
C14_Witness ==
  /\ keyPhase = "jwkDecoded"
  /\ keyFlag = "public"
  /\ keyDecodeFlag = "public"
  /\ keyJwk.val[1].key_ops = <<"sign", "verify">>
  /\ keyJwk.val[1].x # <<>>
  /\ keyDecoded = Err("INVALID_KEYPAIR_CONTENT")

(***************************************************************************)
(* Properties of the keypair                                               *)
(***************************************************************************)
KpPhases == {"none", "constructed", "exported", "imported"}

KpTypeOK ==
  /\ kpPhase \in KpPhases
  /\ kpRound \in 0..1
  /\ kpInits \in 0..MaxInits
  /\ kpDocIntact \in BOOLEAN

\* what the last export was asked for, the defaults filled in
ExportFlag == kpExport.after.flag[1][1]
ExportType == kpExport.after.type[1][1]
KnownType == ExportType \in {KEYPAIR_DOCUMENT_TYPE_MULTI, KEYPAIR_DOCUMENT_TYPE_JWK}

\* a keypair constructed with a controller and no id, and initialized
FreshInitialized ==
  /\ kpRound = 0
  /\ ~Falsy(kpNew.controller)
  /\ kpNew.id = None
  /\ kp.privateKey # None
  /\ kp.publicKey # None

\* C12: for a keypair constructed with a controller and no id, after
\* initialize(), export succeeds for both flags and both types; importing
\* the private export gives back both keys, importing the public export
\* gives back the public key and no private key; the controller is kept.
C12_ExportImportRoundTrip ==
  /\ (kpPhase \in {"exported", "imported"} /\ FreshInitialized /\ KnownType)
       => kpExport.result.ok
  /\ (kpPhase = "imported" /\ FreshInitialized /\ kpDocIntact
        /\ kpImport.options = NoImportOptions)
       => /\ kpImport.result.ok
          /\ kpImport.result.val[1].publicKey = kp.publicKey
          /\ kpImport.result.val[1].privateKey
               = (IF ExportFlag = "private" THEN kp.privateKey ELSE None)
          /\ kpImport.result.val[1].controller = kp.controller

C12_Witness ==
  /\ kpPhase = "imported"
  /\ FreshInitialized
  /\ kpDocIntact
  /\ kpImport.options = NoImportOptions
  /\ kpExport.options = [flag |-> Some(<<"private">>), type |-> Some(<<KEYPAIR_DOCUMENT_TYPE_JWK>>)]
  /\ kpImport.result.ok
  /\ kpImport.result.val[1].privateKey = kp.privateKey
  /\ Len(kp.privateKey[1]) = 32
  /\ Len(kp.publicKey[1]) = 96

\* the last call of initialize, before anything else happened to the keypair
JustInitialized == kpPhase = "constructed" /\ kpRound = 0 /\ kpInits > 0
LongEnough(seed) == seed = None \/ Len(seed[1]) >= MINIMAL_SEED_LENGTH

\* C15: initialize with no seed or a seed of at least 32 bytes stores both
\* keys; it sets id = controller + "#" + materialToMultibase(publicKey,
\* public) when the controller is set and the id is not, and leaves the id
\* alone otherwise.  With a shorter seed it fails with the length error and
\* leaves privateKey, publicKey and id as they were.  A field counts as set
\* when it is there and not the empty string.
C15_Initialize ==
  JustInitialized =>
    IF LongEnough(kpInit.seed)
    THEN /\ kpInit.code = ""
         /\ kp.privateKey # None /\ Len(kp.privateKey[1]) = KEY_MATERIAL_LENGTH("private")[1]
         /\ kp.publicKey # None /\ Len(kp.publicKey[1]) = KEY_MATERIAL_LENGTH("public")[1]
         /\ kp.controller = kpInit.before.controller
         /\ IF ~Falsy(kpInit.before.controller) /\ Falsy(kpInit.before.id)
            THEN kp.id = Some(kp.controller[1] \o <<ChHash>>
                               \o materialToMultibase(kp.publicKey[1], "public").val[1])
            ELSE kp.id = kpInit.before.id
    ELSE /\ kpInit.code = "INVALID_KEYPAIR_LENGTH"
         /\ kp = kpInit.before

\* a second initialize with a short seed after a first that set the id
C15_Witness ==
  /\ JustInitialized
  /\ kpInits = 2
  /\ kpNew.id = None
  /\ kpNew.controller = Some(TextD)
  /\ kpInit.seed # None
  /\ Len(kpInit.seed[1]) = MINIMAL_SEED_LENGTH - 1
  /\ kpInit.code = "INVALID_KEYPAIR_LENGTH"
  /\ kp.privateKey # None
  /\ kp.id # None
  /\ StartsWith(kp.id[1], TextD \o <<ChHash, ChZ>>)

\* an export has been called and nothing was called after it
JustExported == kpPhase = "exported" /\ kpDocIntact

MaterialAbsent ==
  \/ ExportFlag = "private" /\ kpExport.before.privateKey = None
  \/ ExportFlag = "public" /\ kpExport.before.publicKey = None

IdOrControllerMissing == Falsy(kpExport.before.id) \/ Falsy(kpExport.before.controller)

ExportMustFail ==
  \/ MaterialAbsent
  \/ IdOrControllerMissing
  \/ ~StartsWith(kpExport.before.id[1], kpExport.before.controller[1])
  \/ ~KnownType

\* C16: export, with flag public and type Multikey as defaults, fails with
\* KEYPAIR_EXPORT_ERROR if the key material the flag asks for is absent, or
\* id or controller is missing, or id does not start with controller, or the
\* type is neither Multikey nor JsonWebKey; then no verification method is
\* returned and the keypair is as it was.  In every other case it returns a
\* verification method.
C16_ExportErrors ==
  JustExported =>
    /\ ExportFlag = (IF kpExport.options.flag = None THEN "public"
                     ELSE kpExport.options.flag[1][1])
    /\ ExportType = (IF kpExport.options.type = None THEN KEYPAIR_DOCUMENT_TYPE_MULTI
                     ELSE kpExport.options.type[1][1])
    /\ kp = kpExport.before
    /\ IF ExportMustFail
       THEN kpExport.result = Err("KEYPAIR_EXPORT_ERROR") /\ kpDoc = None
       ELSE /\ kpExport.result.ok
            /\ kpDoc = Some(kpExport.result.val[1])
            /\ kpDoc[1].type = ExportType

\* a keypair with its keys whose id does not start with its controller
C16_Witness ==
  /\ JustExported
  /\ kpExport.before.id = Some(TextXHashK)
  /\ kpExport.before.controller = Some(TextD)
  /\ kpExport.before.publicKey # None
  /\ KnownType
  /\ kpExport.result = Err("KEYPAIR_EXPORT_ERROR")

\* the last export returned a verification method
ExportReturned == kpPhase = "exported" /\ kpDocIntact /\ kpExport.result.ok
ExportedDocument == kpExport.result.val[1]

\* C17: the exported verification method has a secret key field only when
\* flag = private: with flag public, or no flag, there is none even when the
\* keypair holds a private key.  The public key field of the exported type
\* is there whenever the keypair holds public material, for either flag.
C17_SecretOnlyWhenPrivate ==
  ExportReturned =>
    /\ (kpExport.options.flag # Some(<<"private">>)
         => /\ ExportedDocument.secretKeyMultibase = None
            /\ ExportedDocument.secretKeyJwk = None)
    /\ (kpExport.before.publicKey # None
         => IF ExportType = KEYPAIR_DOCUMENT_TYPE_MULTI
            THEN ExportedDocument.publicKeyMultibase
                   = Some(materialToMultibase(kpExport.before.publicKey[1], "public").val[1])
            ELSE ExportedDocument.publicKeyJwk
                   = Some(materialToJwk(kpExport.before.publicKey[1], "public").val[1]))

\* a keypair with both keys exported without a flag
C17_Witness ==
  /\ ExportReturned
  /\ kpExport.options.flag = None
  /\ kpExport.before.privateKey # None
  /\ kpExport.before.publicKey # None
  /\ ExportedDocument.publicKeyMultibase # None
  /\ ExportedDocument.secretKeyMultibase = None

C18_PrivateOnlyReached ==
  /\ ExportReturned
  /\ ExportType = KEYPAIR_DOCUMENT_TYPE_JWK
  /\ kpExport.before.publicKey = None
  /\ ExportedDocument.id = kpExport.before.id

\* the exported verification method has a key field
ExportedKeyPresent ==
  ExportReturned =>
    \/ ExportedDocument.secretKeyMultibase # None
    \/ ExportedDocument.publicKeyMultibase # None
    \/ ExportedDocument.secretKeyJwk # None
    \/ ExportedDocument.publicKeyJwk # None

\* C19: every verification method returned by export contains at least one
\* key field, and its id begins with its controller followed by '#'.
C19_ExportedInvariant ==
  ExportReturned =>
    /\ ExportedKeyPresent
    /\ ExportedDocument.id # None
    /\ ExportedDocument.controller # None
    /\ StartsWith(ExportedDocument.id[1], ExportedDocument.controller[1] \o <<ChHash>>)

\* the document of the last import, imported without options
PlainImport == kpPhase = "imported" /\ kpImport.options = NoImportOptions
ImportedDocument == kpDoc[1]

\* the key fields of the document's type and what its decoder makes of them;
\* a field is present when it is there and not the empty string
SecretField ==
  IF ImportedDocument.type = KEYPAIR_DOCUMENT_TYPE_MULTI
  THEN (IF Falsy(ImportedDocument.secretKeyMultibase) THEN None
        ELSE Some(multibaseToMaterial(ImportedDocument.secretKeyMultibase[1], "private")))
  ELSE (IF ImportedDocument.secretKeyJwk = None THEN None
        ELSE Some(jwkToMaterial(ImportedDocument.secretKeyJwk[1], "private")))

PublicField ==
  IF ImportedDocument.type = KEYPAIR_DOCUMENT_TYPE_MULTI
  THEN (IF Falsy(ImportedDocument.publicKeyMultibase) THEN None
        ELSE Some(multibaseToMaterial(ImportedDocument.publicKeyMultibase[1], "public")))
  ELSE (IF ImportedDocument.publicKeyJwk = None THEN None
        ELSE Some(jwkToMaterial(ImportedDocument.publicKeyJwk[1], "public")))

FieldDecodes(field) == field = None \/ field[1].ok
KeyOf(field) == IF field = None THEN None ELSE Some(field[1].val[1])

\* C20: import(doc) dispatches on doc.type.  A Multikey document is decoded
\* with the multibase decoder and a JsonWebKey document with the JWK
\* decoder: each key field that is present is decoded into the matching
\* field of the keypair and each absent one leaves that field unset (a field
\* that does not decode fails the import with the decoder's error).  Any
\* other type fails with KEYPAIR_IMPORT_ERROR; a document of a known type
\* with neither key fails with INVALID_KEYPAIR_CONTENT.  The keypair
\* returned carries the document's id and controller.
C20_ImportDispatch ==
  PlainImport =>
    IF ImportedDocument.type \notin {KEYPAIR_DOCUMENT_TYPE_MULTI, KEYPAIR_DOCUMENT_TYPE_JWK}
    THEN kpImport.result = Err("KEYPAIR_IMPORT_ERROR")
    ELSE IF SecretField = None /\ PublicField = None
    THEN kpImport.result = Err("INVALID_KEYPAIR_CONTENT")
    ELSE IF ~FieldDecodes(SecretField)
    THEN kpImport.result = Err(SecretField[1].code)
    ELSE IF ~FieldDecodes(PublicField)
    THEN kpImport.result = Err(PublicField[1].code)
    ELSE /\ kpImport.result.ok
         /\ kpImport.result.val[1].privateKey = KeyOf(SecretField)
         /\ kpImport.result.val[1].publicKey = KeyOf(PublicField)
         /\ kpImport.result.val[1].id = ImportedDocument.id
         /\ kpImport.result.val[1].controller = ImportedDocument.controller

\* a JsonWebKey document with both keys, whose id is the thumbprint id
C20_Witness ==
  /\ PlainImport
  /\ kpDocIntact
  /\ ImportedDocument.type = KEYPAIR_DOCUMENT_TYPE_JWK
  /\ ImportedDocument.secretKeyJwk # None
  /\ ImportedDocument.publicKeyJwk # None
  /\ kpImport.result.ok
  /\ kpImport.result.val[1].id = ImportedDocument.id
  /\ kpImport.result.val[1].id # kp.id
  /\ Len(kpImport.result.val[1].privateKey[1]) = 32
  /\ Len(kpImport.result.val[1].publicKey[1]) = 96

\* the failing imports of the claim happen
C20_UnknownTypeReached ==
  PlainImport /\ ImportedDocument.type = "Other" /\ ~kpImport.result.ok

C20_NeitherKeyReached ==
  /\ PlainImport
  /\ ImportedDocument.type = KEYPAIR_DOCUMENT_TYPE_MULTI
  /\ SecretField = None /\ PublicField = None
  /\ kpImport.result = Err("INVALID_KEYPAIR_CONTENT")

C20_OneFieldReached ==
  /\ PlainImport
  /\ SecretField # None /\ PublicField = None
  /\ kpImport.result.ok
  /\ kpImport.result.val[1].publicKey = None

C20_DecoderErrorReached ==
  PlainImport /\ PublicField # None /\ ~FieldDecodes(PublicField)

\* the last import was of a document as export wrote it, and its context,
\* if checked, was found valid
ValidImport ==
  /\ kpPhase = "imported"
  /\ kpDocIntact
  /\ (kpImport.options.checkContext = Some(TRUE) => kpImport.validated)

\* a timestamp of the document lies before the time of the import
InThePast(timestamp) == timestamp # None /\ DateOf(timestamp[1]) < kpImport.now

\* C21: import with checkExpired = true fails with KEYPAIR_EXPIRED_ERROR
\* when the document's expires timestamp is in the past, and with
\* checkRevoked = true when its revoked timestamp is in the past; when the
\* flag is false or absent the check is skipped, so an expired or revoked
\* but otherwise valid document imports.
C21_DateChecks ==
  ValidImport =>
    IF \/ kpImport.options.checkExpired = Some(TRUE) /\ InThePast(ImportedDocument.expires)
       \/ kpImport.options.checkRevoked = Some(TRUE) /\ InThePast(ImportedDocument.revoked)
    THEN kpImport.result = Err("KEYPAIR_EXPIRED_ERROR")
    ELSE kpImport.result.ok

\* a document whose revoked timestamp is in the past, imported with the check
C21_Witness ==
  /\ ValidImport
  /\ kpImport.options.checkRevoked = Some(TRUE)
  /\ InThePast(ImportedDocument.revoked)
  /\ kpImport.result = Err("KEYPAIR_EXPIRED_ERROR")

\* the same document imports when the checks are switched off or left out
C21_SkippedReached ==
  /\ ValidImport
  /\ kpImport.options.checkRevoked = Some(FALSE)
  /\ InThePast(ImportedDocument.revoked)
  /\ InThePast(ImportedDocument.expires)
  /\ kpImport.result.ok

C21_AbsentReached ==
  /\ ValidImport
  /\ kpImport.options = NoImportOptions
  /\ InThePast(ImportedDocument.revoked)
  /\ InThePast(ImportedDocument.expires)
  /\ kpImport.result.ok

\* the W3C timestamp of a date that may be absent
TimestampOf(date) == IF date = None THEN None ELSE Some(toW3CTimestamp(date[1]))

\* C28: export preserves the keypair's timestamps: the verification method
\* has an expires field iff the keypair has expires, equal to its W3C
\* timestamp, and a revoked field iff the keypair has revoked, equal to its
\* W3C timestamp; so import(export(k)) carries the expires and revoked of k.
C28_ExportKeepsTimestamps ==
  /\ ExportReturned
       => /\ ExportedDocument.expires = TimestampOf(kpExport.before.expires)
          /\ ExportedDocument.revoked = TimestampOf(kpExport.before.revoked)
  /\ (ValidImport /\ kpImport.result.ok)
       => /\ kpImport.result.val[1].expires = kp.expires
          /\ kpImport.result.val[1].revoked = kp.revoked

\* the revoked half of the statement, which the code does keep
ExportKeepsRevoked ==
  /\ ExportReturned => ExportedDocument.revoked = TimestampOf(kpExport.before.revoked)
  /\ (ValidImport /\ kpImport.result.ok) => kpImport.result.val[1].revoked = kp.revoked

\* a keypair constructed with a controller and no id, on which initialize
\* has succeeded at least once and nothing else was called
BareInitialized ==
  /\ kpPhase = "constructed"
  /\ kpRound = 0
  /\ ~Falsy(kpNew.controller)
  /\ kpNew.id = None
  /\ kp.publicKey # None

IdIsFingerprint ==
  /\ kp.id = Some(kp.controller[1] \o <<ChHash>> \o generateFingerprint(kp).val[1])
  /\ verifyFingerprint(kp, Drop(kp.id[1], Len(kp.controller[1]) + 1)) = Ok(TRUE)

\* C30: for a keypair constructed with a controller and no id, after any
\* non-empty sequence of successful initialize calls, id = controller + "#"
\* + generateFingerprint(), the fingerprint of the current publicKey, and
\* verifyFingerprint of the part of id after '#' is true.
C30_IdFollowsKey == BareInitialized => IdIsFingerprint

\* the statement for the first successful call
FirstInitializeSetsId ==
  (BareInitialized /\ kpInit.before.publicKey = None) => IdIsFingerprint

(***************************************************************************)
(* Properties of the label maps (specification SpecLabel)                  *)
(***************************************************************************)
LabelCompressed == lblPhase \in {"compressed", "decompressed"}

KeySuffix(entry) == Drop(entry[1], Len(BLANK_LABEL))
ValueSuffix(entry) == Drop(entry[2], Len(COMPRESSED_VALUE))

\* the text is a base-10 integer: digits and nothing else
IsIntegerText(text) == text # <<>> /\ \A i \in 1..Len(text) : IsDigit(text[i])

\* the text is an integer as `${n}` writes it: no leading zero
IsPlainInteger(text) == IsIntegerText(text) /\ (Len(text) = 1 \/ text[1] # Ch0)

WellFormedEntry(entry) ==
  /\ StartsWith(entry[1], BLANK_LABEL)
  /\ StartsWith(entry[2], COMPRESSED_VALUE)
  /\ IsIntegerText(KeySuffix(entry))
  /\ IsIntegerText(ValueSuffix(entry))

PlainEntry(entry) ==
  /\ StartsWith(entry[1], BLANK_LABEL)
  /\ StartsWith(entry[2], COMPRESSED_VALUE)
  /\ IsPlainInteger(KeySuffix(entry))
  /\ IsPlainInteger(ValueSuffix(entry))

\* compressLabelMap({c14n0 -> b3}) == {0 -> 3}
CompressExample ==
  (LabelCompressed /\ lblMap = <<<<BLANK_LABEL \o <<48>>, COMPRESSED_VALUE \o <<51>>>>>>)
    => lblCompressed = Ok(<<<<0, 3>>>>)

C23_CompressErrors ==
  LabelCompressed =>
    IF \E i \in 1..Len(lblMap) : ~WellFormedEntry(lblMap[i])
    THEN lblCompressed = Err("PROOF_GENERATION_ERROR")
    ELSE /\ lblCompressed.ok
         /\ \A i \in 1..Len(lblMap) :
              MapHas(lblCompressed.val[1], DigitsValue(KeySuffix(lblMap[i]), 0))
         /\ \A j \in 1..Len(lblCompressed.val[1]) :
              \E i \in 1..Len(lblMap) :
                lblCompressed.val[1][j] = <<DigitsValue(KeySuffix(lblMap[i]), 0),
                                            DigitsValue(ValueSuffix(lblMap[i]), 0)>>

\* the statement without the suffixes that begin with a digit and go on
\* with something else
CompressErrorsButTrailing ==
  (LabelCompressed /\ \A i \in 1..Len(lblMap) : KeySuffix(lblMap[i]) # <<49, 120>>)
    => C23_CompressErrors

(***************************************************************************)
(* More properties of the pipeline (specification Spec)                    *)
(***************************************************************************)
\* the issuer's serialize has run (transform did not fail) and nothing else
\* has run after it
JustSerialized ==
  /\ pipeIssueOptions # None
  /\ pipeIssueOptions[1].options.suiteOk
  /\ pipeDeriveOptions = None
  /\ pipeVerified = None

IssuerOptions == pipeIssueOptions[1].options
IssuerKeypair == pipeIssueOptions[1].keypair

\* the inputs the feature asks for that the issuer did not supply
MissingInput ==
  \/ /\ IssuerOptions.feature = ANONYMOUS_HOLDER_BINDING
     /\ IssuerOptions.commitmentWithProof = None
  \/ /\ IsNymFeature(IssuerOptions.feature)
     /\ (IssuerOptions.commitmentWithProof = None \/ IssuerOptions.signerNymEntropy = None)

IssuedBase == parseBaseProofValue(pipeProof[1])

\* C24: serialize requires the imported verification method to hold both
\* keys, else it fails with INVALID_VERIFICATION_METHOD before any feature
\* check; ANONYMOUS_HOLDER_BINDING fails with PROOF_GENERATION_ERROR without
\* commitmentWithProof, the pseudonym features without commitmentWithProof or
\* signerNymEntropy; BASELINE needs nothing more.  A failure produces no
\* proof value.  On success the header of the base proof is proofHash ||
\* mandatoryHash and the proof carries signerNymEntropy iff the feature is
\* one of the two pseudonym features.
C24_SerializeChecks ==
  JustSerialized =>
    IF IssuerKeypair.privateKey = None \/ IssuerKeypair.publicKey = None
    THEN pipePhase = "failed" /\ pipeError = "INVALID_VERIFICATION_METHOD" /\ pipeProof = None
    ELSE IF MissingInput
    THEN pipePhase = "failed" /\ pipeError = "PROOF_GENERATION_ERROR" /\ pipeProof = None
    ELSE /\ pipePhase = "issued"
         /\ pipeProof # None
         /\ IssuedBase.ok
         /\ IssuedBase.val[1].feature = IssuerOptions.feature
         /\ IssuedBase.val[1].bbsHeader
              = pipeHashData[1].proofHash \o pipeHashData[1].mandatoryHash
         /\ Len(IssuedBase.val[1].bbsHeader) = HeaderLen
         /\ IssuedBase.val[1].publicKey = IssuerKeypair.publicKey[1]
         /\ (IssuedBase.val[1].signerNymEntropy # None) <=> IsNymFeature(IssuerOptions.feature)

\* a verification method without the private key and a feature without its
\* inputs: the key check comes first
C24_Witness ==
  /\ JustSerialized
  /\ IssuerKeypair.privateKey = None
  /\ MissingInput
  /\ pipeError = "INVALID_VERIFICATION_METHOD"

C24_BaselineWithEntropyReached ==
  /\ JustSerialized
  /\ IssuerOptions.feature = BASELINE
  /\ IssuerOptions.signerNymEntropy # None
  /\ pipePhase = "issued"
  /\ IssuedBase.val[1].signerNymEntropy = None

C24_PseudonymReached ==
  /\ JustSerialized
  /\ IssuerOptions.feature = PSEUDONYM
  /\ pipePhase = "issued"
  /\ IssuedBase.val[1].signerNymEntropy # None

\* derive has run on an issued proof
DeriveRan == pipeDeriveOptions # None
HolderOptions == pipeDeriveOptions[1]

\* C25: for each non-BASELINE feature derive produces a disclosure proof,
\* and the lengthBBSMessages it emits is len(bbsMessages), the number of
\* non-mandatory statements of the document, whatever the caller supplied.
C25_LengthOfMessages ==
  (DeriveRan /\ HolderOptions.feature # BASELINE)
    => /\ pipePhase = "derived"
       /\ pipeDerived # None
       /\ parseDerivedProofValue(pipeDerived[1]).ok
       /\ parseDerivedProofValue(pipeDerived[1]).val[1].lengthBBSMessages
            = Some(Len(pipeHashData[1].nonMandatory))

\* what the code does for these features
NonBaselineDeriveFails ==
  (DeriveRan /\ HolderOptions.feature # BASELINE)
    => /\ pipePhase = "failed"
       /\ pipeError = "PROOF_GENERATION_ERROR"
       /\ pipeDerived = None

\* the holder has generated a proof
HolderProved == DeriveRan /\ pipePhase = "derived" /\ pipeDisclosure # None

\* C27: for the same document, hmacKey and mandatoryPointers and for any
\* selectivePointers, the messages the holder passes to ProofGen (the values
\* of groups.mandatory.nonMatching in key order) are, one by one and in the
\* same order, the messages the issuer signed (the values of
\* hashData.nonMandatory in key order); the selective and combined groups do
\* not change the partition of the mandatory group.
C27_SameMessages ==
  HolderProved =>
    /\ pipeDisclosure[1].bbsMessages = EncodeMessages(MapValues(pipeHashData[1].nonMandatory))
    /\ pipeDisclosure[1].mandatoryNonMatch = pipeHashData[1].nonMandatory
    /\ pipeDisclosure[1].mandatoryMatch = pipeHashData[1].mandatory

\* a document with blank nodes, one mandatory statement, two messages and a
\* selective pointer
C27_Witness ==
  /\ HolderProved
  /\ pipeDoc[1].blanks > 0
  /\ Len(pipeHashData[1].mandatory) = 1
  /\ Len(pipeDisclosure[1].bbsMessages) = 2
  /\ HolderOptions.selectivePointers # <<>>
  /\ pipeDisclosure[1].bbsMessages = EncodeMessages(MapValues(pipeHashData[1].nonMandatory))

\* the third byte of the header of a proof value, which encodes the feature
FeatureByte(proofValue) == base64urlnopad_decode(proofValue).val[1][3]

\* C29: derive keeps the feature of the base proof: applied to a base proof
\* whose header encodes feature F it fails or emits a disclosure proof whose
\* header encodes F (02 -> 03, 04 -> 05, 06 -> 07, 08 -> 09).
C29_DeriveKeepsFeature ==
  (DeriveRan /\ pipePhase = "derived" /\ pipeDerived # None)
    => /\ FeatureByte(pipeDerived[1]) = FeatureByte(pipeProof[1]) + 1
       /\ DerivedFeatureMap(FeatureByte(pipeDerived[1])) = BaseFeatureMap(FeatureByte(pipeProof[1]))

\* the derived header is the one of the feature the holder asked for
DeriveWritesOption ==
  (DeriveRan /\ pipePhase = "derived" /\ pipeDerived # None)
    => DerivedFeatureMap(FeatureByte(pipeDerived[1])) = Some(HolderOptions.feature)

\* with a BASELINE base proof the statement holds
BaselineDeriveKeepsFeature ==
  (DeriveRan /\ pipePhase = "derived" /\ pipeDerived # None /\ FeatureByte(pipeProof[1]) = 2)
    => FeatureByte(pipeDerived[1]) = 3

(***************************************************************************)
(* More properties of the keypair (specification SpecKeypair)              *)
(***************************************************************************)
\* export has been called
ExportCalled == kpPhase \in {"exported", "imported"}

\* C26: every public operation is a pure function of its inputs: after
\* export(options) returns or fails, the options object the caller supplied
\* has exactly the fields and values it had before the call (and likewise
\* the arguments of import, config, hash and createVerifyData).  A call
\* with no options object has nothing the caller could see change.
C26_ArgumentsUntouched ==
  (ExportCalled /\ kpExport.options # NoExportOptions)
    => kpExport.after = kpExport.options

\* the statement for callers that supply both the flag and the type
FullOptionsUntouched ==
  (ExportCalled /\ kpExport.options.flag # None /\ kpExport.options.type # None)
    => kpExport.after = kpExport.options

=============================================================================
